---- MODULE Spec2Model ----
(***************************************************************************)
(* A model of zunlib's asynchronous utilities: the aggregators resolveAll  *)
(* and checkAll (promise combinators over a single producer, a list or a   *)
(* keyed record of producers), the scheduler primitives setPolling and    *)
(* setSuperInterval, the waiters waitCond and waitValue built on           *)
(* setPolling, and the rate limiters debounce and throttle.                *)
(*                                                                         *)
(* JavaScript values are tagged records, so that values of different       *)
(* types can be compared: Prim("v1"), List(<<...>>), Obj([k |-> ...]),     *)
(* the PromiseSettledResult items Fulfilled(v) / Rejected(r), and the      *)
(* Error that checkAll constructs.  Promises are records with a state      *)
(* ("pending", "fulfilled", "rejected").  The microtask queue of the event *)
(* loop is a FIFO of jobs.                                                 *)
(***************************************************************************)
EXTENDS Integers, Sequences, FiniteSets, TLC

VARIABLES
  api,         \* which function was called: "none", "resolveAll", "checkAll",
               \* "waitCond", "waitValue"
  inputs,      \* the producer set passed in: [shape, entries (insertion order)]
  options,     \* [settled, nothrow]
  keys,        \* Object.keys(normalized)
  promises,    \* keys.map(k => toPromise(normalized[k])): one promise per key index
  invoked,     \* key indices of the callables invoked so far, in invocation order
  microtasks,  \* the event loop's microtask queue (FIFO)
  combined,    \* the promise of Promise.all(...) / Promise.allSettled(...)
  elements,    \* the values / outcomes array the combinator fills, by key index
  chained,     \* fail-fast only: the promise of combined.then(...)
  result       \* the promise resolveAll / checkAll returns

aggVars == <<api, inputs, options, keys, promises, invoked, microtasks,
             combined, elements, chained, result>>

VARIABLES
  poll,        \* the closure state of one setPolling call
  signal,      \* the AbortSignal: [aborted]
  tick,        \* the operations of the current synchronous run (history)
  cause        \* what stopped the handle (history): "none" while it runs,
               \* "born" when it was created stopped, else "stop", "abort",
               \* "signal" or "timeout"

pollVars == <<poll, signal, tick, cause>>

VARIABLES
  superInterval  \* the closure state of one setSuperInterval call

superVars == <<superInterval>>

VARIABLES
  checking,    \* waitCond / waitValue: the re-entrancy flag of check
  cycle,       \* waitCond / waitValue: the check in flight
  hist         \* waitCond / waitValue: what the producers were asked and
               \* what they yielded (history)

waitVars == <<checking, cycle, hist>>

VARIABLES
  debounced,   \* the closure state of one debounce call, with the log of
               \* the calls made and of the executions of f (history)
  now          \* the clock, in units of time

debounceVars == <<debounced, now>>

VARIABLES
  throttled    \* the closure state of one throttle call, with the number
               \* of calls made and the log of the executions of f (history)

throttleVars == <<throttled>>

\* the state of the utilities other than the aggregators and setPolling
utilVars == <<superVars, waitVars, debounceVars, throttleVars>>

vars == <<aggVars, pollVars, utilVars>>

----------------------------------------------------------------------------
(* Bounds of the model *)

\* longest list / largest record of producers
MaxLen == 2

\* most invocations of a polled callback
MaxCalls == 2

\* most stop() / abort() / controller.abort() calls in one synchronous run
MaxOps == 4

\* the last instant of the clock
MaxTime == 4

\* the longest delay of a debounced function and the longest interval of a
\* throttled one, in units of the clock
MaxDelay == 2

\* most calls of a debounced function
MaxBurst == 2

\* most calls of a throttled function
MaxThrottled == 3

----------------------------------------------------------------------------
(* JavaScript values *)

Prim(v) == [t |-> "prim", v |-> v]
Null == Prim("null")
True == Prim("true")
False == Prim("false")
Hole == [t |-> "empty"]
List(items) == [t |-> "list", items |-> items]
Obj(at) == [t |-> "object", at |-> at]
Fulfilled(v) == [t |-> "settled", status |-> "fulfilled", value |-> v]
Rejected(r) == [t |-> "settled", status |-> "rejected", reason |-> r]

Pending == [state |-> "pending"]
FulfilledWith(v) == [state |-> "fulfilled", value |-> v]
RejectedWith(r) == [state |-> "rejected", reason |-> r]

Range(s) == {s[i] : i \in DOMAIN s}

\* values a resolveAll producer may fulfil with, reasons a producer may fail with
Values == {"v1", "v2"}
Booleans == {"true", "false"}
Reasons == {"e1", "e2"}

----------------------------------------------------------------------------
(* Producers and producer sets *)

\* A producer: a callable ("fn") or a promise passed in as it is.  late: a
\* callable that returns a pending promise, or a promise still pending at
\* the call; otherwise the callable returns / throws synchronously, or the
\* promise is already settled.  ok: it fulfils with val, else fails with val.
ProducersOf(oks) ==
  [kind : {"fn", "promise"}, late : BOOLEAN, ok : {TRUE}, val : oks]
    \cup [kind : {"fn", "promise"}, late : BOOLEAN, ok : {FALSE}, val : Reasons]

\* the property names a record input may use: a plain name and two
\* integer-like names, which Object.keys lists first, in ascending order
RecordKeys == {"a", "0", "1"}

Injective(s) == \A i, j \in DOMAIN s : s[i] = s[j] => i = j

KeySeqs == {s \in UNION {[1..n -> RecordKeys] : n \in 0..MaxLen} : Injective(s)}

\* the inputs of a call: one producer, a list of producers, or a record of
\* producers (names: its property names in insertion order)
InputsOf(P) ==
  {[shape |-> "single", items |-> <<p>>, names |-> <<>>] : p \in P}
    \cup {[shape |-> "array", items |-> ps, names |-> <<>>] :
            ps \in UNION {[1..n -> P] : n \in 0..MaxLen}}
    \cup UNION {{[shape |-> "record", items |-> ps, names |-> ks] :
                   ps \in [1..Len(ks) -> P]} : ks \in KeySeqs}

OptionSets == [settled : BOOLEAN, nothrow : BOOLEAN]

\* String(i) for the array indices the model can reach
IndexNames == [i \in 1..(MaxLen + 2) |-> ToString(i - 1)]

IsArrayIndex(k) == k \in Range(IndexNames)

\* the normalized record, as its entries in insertion order
normalize(in) ==
  CASE in.shape = "single" -> <<[key |-> "result", input |-> in.items[1]]>>
    [] in.shape = "array" ->
         [i \in 1..Len(in.items) |-> [key |-> IndexNames[i], input |-> in.items[i]]]
    [] OTHER ->
         [i \in 1..Len(in.items) |-> [key |-> in.names[i], input |-> in.items[i]]]

\* Object.keys: integer-like names in ascending numeric order, then the
\* other names in insertion order
ObjectKeys(entries) ==
  LET names == [i \in 1..Len(entries) |-> entries[i].key]
      IsOwn(k) == k \in Range(names)
      IsName(k) == ~IsArrayIndex(k)
  IN  SelectSeq(IndexNames, IsOwn) \o SelectSeq(names, IsName)

\* normalized[k]
Lookup(entries, k) == (CHOOSE e \in Range(entries) : e.key = k).input

isFunction == inputs.shape = "single"
isArray == inputs.shape = "array"

SettledState(p) ==
  IF p.ok THEN FulfilledWith(Prim(p.val)) ELSE RejectedWith(Prim(p.val))

\* a promise input is returned as it is; a callable is deferred to a microtask
toPromise(input) ==
  IF input.kind = "promise"
    THEN (IF input.late THEN Pending ELSE SettledState(input))
    ELSE Pending

Job(type, i) == [type |-> type, i |-> i]

\* the jobs queued from the last key to the first
JobsForReversed(type, is) ==
  [j \in 1..Len(is) |-> Job(type, is[Len(is) + 1 - j])]

JobsFor(type, is) == [j \in 1..Len(is) |-> Job(type, is[j])]

----------------------------------------------------------------------------
(* The handlers of resolveAll and checkAll.  A handler returns the state   *)
(* its promise takes: FulfilledWith(x) for "return x", RejectedWith(e)     *)
(* for "throw e".                                                          *)

\* the producer behind key index i
InputAt(i) == Lookup(normalize(inputs), keys[i])

\* the record built by: for (i ...) record[keys[i]] = list[i]
ByKey(list) ==
  [k \in Range(keys) |-> list[CHOOSE i \in 1..Len(keys) : keys[i] = k]]

\* buildResult without the unwrapping of a single input
buildResultNoUnwrap(values) ==
  IF isArray THEN List([i \in 1..Len(keys) |-> values[keys[i]]])
  ELSE Obj(values)

buildResult(values) ==
  IF isFunction THEN values["result"]
  ELSE IF isArray THEN List([i \in 1..Len(keys) |-> values[keys[i]]])
  ELSE Obj(values)

\* buildSettledResults without the list case
buildSettledResultsNoList(results) ==
  IF isFunction THEN results["result"] ELSE Obj(results)

buildSettledResults(results) ==
  IF isFunction THEN results["result"]
  ELSE IF isArray THEN List([i \in 1..Len(keys) |-> results[keys[i]]])
  ELSE Obj(results)

resolveAllThen(values) == FulfilledWith(buildResult(ByKey(values)))

\* the catch handler wrapping what it rethrows
resolveAllCatchWrapping(error) ==
  IF options.nothrow THEN FulfilledWith(Null) ELSE RejectedWith(List(<<error>>))

\* the catch handler rethrowing whatever nothrow says
resolveAllCatchRethrowing(error) == RejectedWith(error)

resolveAllCatch(error) ==
  IF options.nothrow THEN FulfilledWith(Null) ELSE RejectedWith(error)

resolveAllSettled(settledResults) ==
  LET results == ByKey(settledResults)
      hasError == \E i \in 1..Len(keys) : settledResults[i].status = "rejected"
      values == [k \in {k \in Range(keys) : results[k].status = "fulfilled"} |->
                   results[k].value]
  IN  IF hasError
        THEN (IF options.nothrow THEN FulfilledWith(Null)
              ELSE RejectedWith(buildSettledResults(results)))
        ELSE FulfilledWith(buildResult(values))

\* Array.prototype.indexOf: the first 0-based index holding x, or -1
indexOf(list, x) ==
  IF \E i \in 1..Len(list) : list[i] = x
    THEN (CHOOSE i \in 1..Len(list) :
            list[i] = x /\ \A j \in 1..(i - 1) : list[j] # x) - 1
    ELSE -1

\* new Error(`Condition "${key}" returned false`), the message in its parts
ConditionError(key) ==
  [t |-> "Error", message |-> <<"Condition \"", key, "\" returned false">>]

\* Array.prototype.lastIndexOf
lastIndexOf(list, x) ==
  IF \E i \in 1..Len(list) : list[i] = x
    THEN (CHOOSE i \in 1..Len(list) :
            list[i] = x /\ \A j \in (i + 1)..Len(list) : list[j] # x) - 1
    ELSE -1

\* checkAll's handler naming the last false condition
checkAllThenLast(values) ==
  LET falseIndex == lastIndexOf(values, False)
  IN  IF falseIndex # -1
        THEN (IF options.nothrow THEN FulfilledWith(False)
              ELSE RejectedWith(ConditionError(keys[falseIndex + 1])))
        ELSE FulfilledWith(True)

checkAllThen(values) ==
  LET falseIndex == indexOf(values, False)
  IN  IF falseIndex # -1
        THEN (IF options.nothrow THEN FulfilledWith(False)
              ELSE RejectedWith(ConditionError(keys[falseIndex + 1])))
        ELSE FulfilledWith(True)

\* checkAll's catch handler rethrowing whatever nothrow says
checkAllCatchRethrowing(error) == RejectedWith(error)

checkAllCatch(error) ==
  IF options.nothrow THEN FulfilledWith(False) ELSE RejectedWith(error)

\* checkAll's settled handler counting only rejections as failures
checkAllSettledRejectedOnly(settledResults) ==
  LET results == ByKey(settledResults)
      hasFailure == \E i \in 1..Len(keys) : settledResults[i].status = "rejected"
  IN  IF hasFailure
        THEN (IF options.nothrow THEN FulfilledWith(False)
              ELSE RejectedWith(buildSettledResults(results)))
        ELSE FulfilledWith(True)

checkAllSettled(settledResults) ==
  LET results == ByKey(settledResults)
      hasFailure == \E i \in 1..Len(keys) :
                      IF settledResults[i].status = "rejected" THEN TRUE
                      ELSE settledResults[i].value = False
  IN  IF hasFailure
        THEN (IF options.nothrow THEN FulfilledWith(False)
              ELSE RejectedWith(buildSettledResults(results)))
        ELSE FulfilledWith(True)

----------------------------------------------------------------------------
(* The aggregators as steps of the event loop *)

AggInit ==
  /\ api = "none"
  /\ inputs = [shape |-> "none", items |-> <<>>, names |-> <<>>]
  /\ options = [settled |-> FALSE, nothrow |-> FALSE]
  /\ keys = <<>>
  /\ promises = <<>>
  /\ invoked = <<>>
  /\ microtasks = <<>>
  /\ combined = Pending
  /\ elements = <<>>
  /\ chained = Pending
  /\ result = Pending

\* The synchronous part of resolveAll / checkAll: normalize, make one
\* promise per key (a callable is queued as a microtask, in key order), hand
\* them to Promise.all / Promise.allSettled (which queues a reaction for
\* every promise already settled, and is fulfilled at once for no promise)
\* and chain the handlers.
Call(name, in, opts) ==
  LET normalized == normalize(in)
      ks == ObjectKeys(normalized)
      n == Len(ks)
      ps == [i \in 1..n |-> toPromise(Lookup(normalized, ks[i]))]
      IsFn(i) == Lookup(normalized, ks[i]).kind \in {"fn", "async"}
      IsSettled(i) == ps[i].state # "pending"
  IN  /\ api' = name
      /\ inputs' = in
      /\ options' = opts
      /\ keys' = ks
      /\ promises' = ps
      /\ invoked' = <<>>
      /\ elements' = [i \in 1..n |-> Hole]
      /\ combined' = IF n = 0 THEN FulfilledWith(List(<<>>)) ELSE Pending
      /\ microtasks' = JobsFor("invoke", SelectSeq([i \in 1..n |-> i], IsFn))
                         \o JobsFor("react", SelectSeq([i \in 1..n |-> i], IsSettled))
                         \o (IF n = 0 THEN <<Job("then", 0)>> ELSE <<>>)
      /\ chained' = Pending
      /\ result' = Pending

resolveAll ==
  /\ api = "none"
  /\ \E in \in InputsOf(ProducersOf(Values)), opts \in OptionSets :
       Call("resolveAll", in, opts)
  /\ UNCHANGED <<pollVars, utilVars>>

checkAll ==
  /\ api = "none"
  /\ \E in \in InputsOf(ProducersOf(Booleans)), opts \in OptionSets :
       Call("checkAll", in, opts)
  /\ UNCHANGED <<pollVars, utilVars>>

\* the producers whose outcome is fixed by the call: those that are settled
\* at the call or settle when invoked, and the callables that return a
\* promise already settled ("async", as an async function that returns or
\* throws at once), whose outcome reaches the aggregator two microtasks
\* later.  (A late callable settles at any moment after its invocation.)
PromptOf(oks) ==
  {p \in ProducersOf(oks) : ~p.late}
    \cup [kind : {"async"}, late : {FALSE}, ok : {TRUE}, val : oks]
    \cup [kind : {"async"}, late : {FALSE}, ok : {FALSE}, val : Reasons]

\* the aggregators called with such producers only
resolveAllPrompt ==
  /\ api = "none"
  /\ \E in \in InputsOf(PromptOf(Values)), opts \in OptionSets :
       Call("resolveAll", in, opts)
  /\ UNCHANGED <<pollVars, utilVars>>

checkAllPrompt ==
  /\ api = "none"
  /\ \E in \in InputsOf(PromptOf(Booleans)), opts \in OptionSets :
       Call("checkAll", in, opts)
  /\ UNCHANGED <<pollVars, utilVars>>

HeadIs(type) == microtasks # <<>> /\ Head(microtasks).type = type

\* what running the callable of key index i does to its promise and to
\* the queue, were a settled promise it returns taken as its outcome at once
invokedAtOnce(i) ==
  IF InputAt(i).late
    THEN /\ microtasks' = Tail(microtasks)
         /\ UNCHANGED promises
    ELSE /\ promises' = [promises EXCEPT ![i] = SettledState(InputAt(i))]
         /\ microtasks' = Append(Tail(microtasks), Job("react", i))

\* what running the callable of key index i does: what it returns or throws
\* settles its promise, unless it returned a promise: one still pending
\* settles it later, one already settled is adopted by a further microtask
invokedInput(i) ==
  IF InputAt(i).late
    THEN /\ microtasks' = Tail(microtasks)
         /\ UNCHANGED promises
    ELSE IF InputAt(i).kind = "async"
      THEN /\ microtasks' = Append(Tail(microtasks), Job("adopt", i))
           /\ UNCHANGED promises
      ELSE /\ promises' = [promises EXCEPT ![i] = SettledState(InputAt(i))]
           /\ microtasks' = Append(Tail(microtasks), Job("react", i))

\* the microtask of Promise.resolve().then(() => input()): the callable runs
Invoke ==
  /\ HeadIs("invoke")
  /\ LET i == Head(microtasks).i
     IN  /\ invoked' = Append(invoked, i)
         /\ invokedInput(i)
  /\ UNCHANGED <<api, inputs, options, keys, combined, elements, chained, result>>
  /\ UNCHANGED <<pollVars, utilVars>>

\* the microtask that adopts the settled promise a callable returned: it
\* calls then() of that promise, which queues the reaction
Adopt ==
  /\ HeadIs("adopt")
  /\ microtasks' = Append(Tail(microtasks), Job("adopted", Head(microtasks).i))
  /\ UNCHANGED <<api, inputs, options, keys, promises, invoked, combined,
                 elements, chained, result>>
  /\ UNCHANGED <<pollVars, utilVars>>

\* the reaction of the adopted promise settles the promise of the callable
Adopted ==
  /\ HeadIs("adopted")
  /\ LET i == Head(microtasks).i
     IN  /\ promises' = [promises EXCEPT ![i] = SettledState(InputAt(i))]
         /\ microtasks' = Append(Tail(microtasks), Job("react", i))
  /\ UNCHANGED <<api, inputs, options, keys, invoked, combined, elements,
                 chained, result>>
  /\ UNCHANGED <<pollVars, utilVars>>

\* a pending promise (one passed in, or one a callable returned) settles
Settle ==
  /\ \E i \in 1..Len(promises) :
       /\ promises[i].state = "pending"
       /\ InputAt(i).late
       /\ InputAt(i).kind = "fn" => i \in Range(invoked)
       /\ promises' = [promises EXCEPT ![i] = SettledState(InputAt(i))]
       /\ microtasks' = Append(microtasks, Job("react", i))
  /\ UNCHANGED <<api, inputs, options, keys, invoked, combined, elements,
                 chained, result>>
  /\ UNCHANGED <<pollVars, utilVars>>

Full(list) == \A i \in 1..Len(list) : list[i] # Hole

\* a Promise.all whose every rejection replaces the reason
PromiseAllLastRejection(i) ==
  IF promises[i].state = "fulfilled"
    THEN LET filled == [elements EXCEPT ![i] = promises[i].value]
         IN  /\ elements' = filled
             /\ IF Full(filled) /\ combined.state = "pending"
                  THEN /\ combined' = FulfilledWith(List(filled))
                       /\ microtasks' = Append(Tail(microtasks), Job("then", 0))
                  ELSE /\ microtasks' = Tail(microtasks)
                       /\ UNCHANGED combined
    ELSE /\ UNCHANGED elements
         /\ combined' = RejectedWith(promises[i].reason)
         /\ microtasks' = IF combined.state = "pending"
                            THEN Append(Tail(microtasks), Job("then", 0))
                            ELSE Tail(microtasks)

\* a Promise.all that rejects only once no promise is pending
PromiseAllWaiting(i) ==
  IF promises[i].state = "fulfilled"
    THEN LET filled == [elements EXCEPT ![i] = promises[i].value]
         IN  /\ elements' = filled
             /\ IF Full(filled) /\ combined.state = "pending"
                  THEN /\ combined' = FulfilledWith(List(filled))
                       /\ microtasks' = Append(Tail(microtasks), Job("then", 0))
                  ELSE /\ microtasks' = Tail(microtasks)
                       /\ UNCHANGED combined
    ELSE /\ UNCHANGED elements
         /\ IF /\ combined.state = "pending"
               /\ \A j \in 1..Len(promises) : promises[j].state # "pending"
              THEN /\ combined' = RejectedWith(promises[i].reason)
                   /\ microtasks' = Append(Tail(microtasks), Job("then", 0))
              ELSE /\ microtasks' = Tail(microtasks)
                   /\ UNCHANGED combined

\* Promise.all's reaction to promise i: a value fills its slot and the last
\* value fulfils the combined promise; a rejection rejects it if it is
\* still pending
PromiseAll(i) ==
  IF promises[i].state = "fulfilled"
    THEN LET filled == [elements EXCEPT ![i] = promises[i].value]
         IN  /\ elements' = filled
             /\ IF Full(filled) /\ combined.state = "pending"
                  THEN /\ combined' = FulfilledWith(List(filled))
                       /\ microtasks' = Append(Tail(microtasks), Job("then", 0))
                  ELSE /\ microtasks' = Tail(microtasks)
                       /\ UNCHANGED combined
    ELSE /\ UNCHANGED elements
         /\ IF combined.state = "pending"
              THEN /\ combined' = RejectedWith(promises[i].reason)
                   /\ microtasks' = Append(Tail(microtasks), Job("then", 0))
              ELSE /\ microtasks' = Tail(microtasks)
                   /\ UNCHANGED combined

\* Promise.allSettled's reaction to promise i: its outcome fills its slot
\* and the last outcome fulfils the combined promise
PromiseAllSettled(i) ==
  LET item == IF promises[i].state = "fulfilled"
                THEN Fulfilled(promises[i].value)
                ELSE Rejected(promises[i].reason)
      filled == [elements EXCEPT ![i] = item]
  IN  /\ elements' = filled
      /\ IF Full(filled)
           THEN /\ combined' = FulfilledWith(List(filled))
                /\ microtasks' = Append(Tail(microtasks), Job("then", 0))
           ELSE /\ microtasks' = Tail(microtasks)
                /\ UNCHANGED combined

React ==
  /\ HeadIs("react")
  /\ IF options.settled
       THEN PromiseAllSettled(Head(microtasks).i)
       ELSE PromiseAll(Head(microtasks).i)
  /\ UNCHANGED <<api, inputs, options, keys, promises, invoked, chained, result>>
  /\ UNCHANGED <<pollVars, utilVars>>

\* the handler passed to combined.then(...); a rejection passes through it
ThenHandler ==
  IF combined.state = "rejected" THEN RejectedWith(combined.reason)
  ELSE IF api = "resolveAll"
    THEN (IF options.settled THEN resolveAllSettled(combined.value.items)
          ELSE resolveAllThen(combined.value.items))
    ELSE (IF options.settled THEN checkAllSettled(combined.value.items)
          ELSE checkAllThen(combined.value.items))

\* the handler passed to chained.catch(...); a value passes through it
CatchHandler ==
  IF chained.state = "fulfilled" THEN chained
  ELSE IF api = "resolveAll" THEN resolveAllCatch(chained.reason)
  ELSE checkAllCatch(chained.reason)

\* in settled mode combined.then(...) is the promise returned; in fail-fast
\* mode .catch(...) is chained behind it
Then ==
  /\ HeadIs("then")
  /\ IF options.settled
       THEN /\ result' = ThenHandler
            /\ microtasks' = Tail(microtasks)
            /\ UNCHANGED chained
       ELSE /\ chained' = ThenHandler
            /\ microtasks' = Append(Tail(microtasks), Job("catch", 0))
            /\ UNCHANGED result
  /\ UNCHANGED <<api, inputs, options, keys, promises, invoked, combined, elements>>
  /\ UNCHANGED <<pollVars, utilVars>>

Catch ==
  /\ HeadIs("catch")
  /\ result' = CatchHandler
  /\ microtasks' = Tail(microtasks)
  /\ UNCHANGED <<api, inputs, options, keys, promises, invoked, combined,
                 elements, chained>>
  /\ UNCHANGED <<pollVars, utilVars>>

----------------------------------------------------------------------------
(* setPolling.  poll holds what the closures of one setPolling call share: *)
(* handle ("none" before the call, "noop" for the handle returned when the *)
(* signal is already aborted, "live" otherwise), the options, the stopped  *)
(* flag, whether the interval and the timeout timer are pending, and, as   *)
(* history, the reasons onabort was called with and the number of          *)
(* invocations of the callback.  Timers fire between synchronous runs.     *)

\* timeout: not given, 0, or a positive number of milliseconds
PollingOptions ==
  [timeout : {"undefined", "0", "50"}, immediate : BOOLEAN,
   signal : BOOLEAN, onabort : BOOLEAN]

\* a test of the timeout option for being given: timeout !== undefined
ToBooleanDefined(x) == x # "undefined"

\* the truthiness of a timeout option
ToBoolean(x) == x \notin {"undefined", "0"}

PollInit ==
  /\ poll = [handle |-> "none",
             options |-> [timeout |-> "undefined", immediate |-> FALSE,
                          signal |-> FALSE, onabort |-> FALSE],
             stopped |-> FALSE, intervalId |-> FALSE, timeoutId |-> FALSE,
             aborts |-> <<>>, calls |-> 0, first |-> "none"]
  /\ signal = [aborted |-> FALSE, listeners |-> 0]
  /\ tick = [ops |-> <<>>, running |-> FALSE]
  /\ cause = "none"

\* onabort?.(reason)
onabort(h, reason) ==
  IF h.options.onabort THEN [h EXCEPT !.aborts = Append(@, reason)] ELSE h

\* callback(); first (history): whether the interval timer was set when the
\* callback was first invoked
callback(h) ==
  [h EXCEPT !.calls = @ + 1,
            !.first = IF h.calls # 0 THEN @
                      ELSE IF h.intervalId THEN "armed" ELSE "unarmed"]

\* stop() leaving the interval timer pending
stopKeepingInterval(h) ==
  IF h.stopped THEN h ELSE [h EXCEPT !.stopped = TRUE]

stop(h) ==
  IF h.stopped THEN h
  ELSE [h EXCEPT !.stopped = TRUE, !.intervalId = FALSE]

\* abort() without its check of the stopped flag
abortUnguarded(h) == onabort(stop(h), "manual")

abort(h) ==
  IF h.stopped THEN h ELSE onabort(stop(h), "manual")

\* the listener without its check of the stopped flag
onSignalAbortUnguarded(h) == onabort(stop(h), "signal")

\* the listener of the signal's "abort" event
onSignalAbort(h) ==
  IF h.stopped THEN h ELSE onabort(stop(h), "signal")

\* the function handed to setTimeout without its check of the stopped flag
onTimeoutUnguarded(h) == onabort(stop(h), "timeout")

\* a timeout that stops the handle and does not call onabort
onTimeoutSilent(h) == stop(h)

\* a timeout that reports itself as a cancellation by the signal
onTimeoutAsSignal(h) ==
  IF h.stopped THEN h ELSE onabort(stop(h), "signal")

\* the function handed to setTimeout
onTimeout(h) ==
  IF h.stopped THEN h ELSE onabort(stop(h), "timeout")

\* setPolling without its check of a signal that is already aborted
createdAnyway(opts) ==
  LET armed == [poll EXCEPT !.options = opts,
                            !.handle = "live",
                            !.stopped = FALSE,
                            !.intervalId = TRUE,
                            !.timeoutId = ToBoolean(opts.timeout)]
  IN  IF opts.immediate THEN callback(armed) ELSE armed

\* the closure state a call setPolling(callback, opts) leaves behind
created(opts) ==
  IF opts.signal /\ signal.aborted
    THEN onabort([poll EXCEPT !.options = opts, !.handle = "noop"], "signal")
    ELSE LET armed == [poll EXCEPT !.options = opts,
                                   !.handle = "live",
                                   !.stopped = FALSE,
                                   !.intervalId = TRUE,
                                   !.timeoutId = ToBoolean(opts.timeout)]
         IN  IF opts.immediate THEN callback(armed) ELSE armed

\* the handle is Stopped: it was created stopped (the signal was already
\* aborted) or its stopped flag is set
Stopped ==
  \/ poll.handle = "noop"
  \/ poll.handle = "live" /\ poll.stopped

\* the cause of a step that stopped the handle
Caused(by) == IF ~Stopped /\ Stopped' THEN by ELSE cause

\* the call setPolling(callback, opts)
setPolling ==
  /\ poll.handle = "none"
  /\ \E opts \in PollingOptions :
       /\ poll' = created(opts)
       /\ signal' = IF opts.signal /\ poll'.handle = "live"
                      THEN [signal EXCEPT !.listeners = @ + 1]
                      ELSE signal
       /\ cause' = IF opts.signal /\ signal.aborted THEN "born" ELSE "none"
  /\ UNCHANGED tick
  /\ UNCHANGED <<aggVars, utilVars>>

\* a cancelling operation of the running script, noted in the history
Noted(op) ==
  [ops |-> Append(tick.ops, op),
   running |-> IF tick.ops = <<>>
                 THEN poll.handle = "live" /\ ~poll.stopped
                 ELSE tick.running]

\* the script calls the handle's stop()
Stop ==
  /\ poll.handle # "none"
  /\ Len(tick.ops) < MaxOps
  /\ poll' = IF poll.handle = "live" THEN stop(poll) ELSE poll
  /\ tick' = Noted("stop")
  /\ cause' = Caused("stop")
  /\ UNCHANGED signal
  /\ UNCHANGED <<aggVars, utilVars>>

\* the script calls the handle's abort()
Abort ==
  /\ poll.handle # "none"
  /\ Len(tick.ops) < MaxOps
  /\ poll' = IF poll.handle = "live" THEN abort(poll) ELSE poll
  /\ tick' = Noted("abort")
  /\ cause' = Caused("abort")
  /\ UNCHANGED signal
  /\ UNCHANGED <<aggVars, utilVars>>

\* the script aborts the signal: its "abort" event is dispatched, once, to
\* the listeners registered
SignalAbort ==
  /\ ~signal.aborted
  /\ Len(tick.ops) < MaxOps
  /\ signal' = [signal EXCEPT !.aborted = TRUE]
  /\ poll' = IF signal.listeners > 0 THEN onSignalAbort(poll) ELSE poll
  /\ tick' = Noted("signal")
  /\ cause' = Caused("signal")
  /\ UNCHANGED <<aggVars, utilVars>>

\* the synchronous run ends
Yield ==
  /\ tick.ops # <<>>
  /\ tick' = [ops |-> <<>>, running |-> FALSE]
  /\ UNCHANGED <<poll, signal, cause>>
  /\ UNCHANGED <<aggVars, utilVars>>

\* the interval timer fires: the callback runs, and may itself call the
\* handle's stop() or abort()
Tick ==
  /\ poll.intervalId
  /\ tick.ops = <<>>
  /\ poll.calls < MaxCalls
  /\ \E does \in {"nothing", "stop", "abort"} :
       /\ poll' = CASE does = "stop" -> stop(callback(poll))
                   [] does = "abort" -> abort(callback(poll))
                   [] OTHER -> callback(poll)
       /\ cause' = Caused(does)
  /\ UNCHANGED <<signal, tick>>
  /\ UNCHANGED <<aggVars, utilVars>>

\* the timeout timer fires
Timeout ==
  /\ poll.timeoutId
  /\ tick.ops = <<>>
  /\ poll' = onTimeout([poll EXCEPT !.timeoutId = FALSE])
  /\ cause' = Caused("timeout")
  /\ UNCHANGED <<signal, tick>>
  /\ UNCHANGED <<aggVars, utilVars>>

----------------------------------------------------------------------------
(* setSuperInterval: an interval driven by a Worker's messages, or by       *)
(* setInterval where a Worker cannot be made.  The signal is the one of the *)
(* setPolling model.                                                        *)

SuperIntervalOptions ==
  [timeout : {"undefined", "0", "50"}, immediate : BOOLEAN, signal : BOOLEAN]

\* before the call; halted, born and first are history: stop(), the
\* signal's abort or the timeout has occurred; the signal was aborted at
\* creation; whether the worker or the fallback interval was started when
\* the callback was first invoked
SuperInit ==
  superInterval = [handle |-> "none",
                   options |-> [timeout |-> "undefined", immediate |-> FALSE,
                                signal |-> FALSE],
                   worker |-> "none", intervalId |-> FALSE,
                   timeoutId |-> FALSE, calls |-> 0,
                   halted |-> FALSE, born |-> FALSE, first |-> "none"]

\* the guarded callback of worker.onmessage and of the fallback interval
guarded(h) ==
  IF h.options.signal /\ signal.aborted THEN h
  ELSE [h EXCEPT !.calls = @ + 1,
                 !.first = IF h.calls # 0 THEN @
                           ELSE IF h.worker = "running" \/ h.intervalId
                             THEN "armed"
                             ELSE "unarmed"]

\* a stop that clears the fallback interval and leaves the worker running
stopWithoutTerminate(h) ==
  [h EXCEPT !.intervalId = FALSE]

\* const stop = () => { clearInterval(intervalId); worker?.terminate(); }
stopSuperInterval(h) ==
  [h EXCEPT !.intervalId = FALSE,
            !.worker = IF @ = "none" THEN "none" ELSE "terminated"]

\* the call setSuperInterval(callback, opts); withWorker: a Worker can be
\* made and started
setSuperInterval ==
  /\ superInterval.handle = "none"
  /\ \E opts \in SuperIntervalOptions, withWorker \in BOOLEAN :
       LET armed == [superInterval EXCEPT
                       !.handle = "live",
                       !.options = opts,
                       !.worker = IF withWorker THEN "running" ELSE "none",
                       !.intervalId = ~withWorker,
                       !.timeoutId = ToBoolean(opts.timeout),
                       !.born = opts.signal /\ signal.aborted]
       IN  /\ superInterval' = IF opts.immediate THEN guarded(armed)
                                ELSE armed
           /\ signal' = IF opts.signal
                          THEN [signal EXCEPT !.listeners = @ + 1]
                          ELSE signal
  /\ UNCHANGED <<aggVars, poll, tick, cause, waitVars, debounceVars,
                 throttleVars>>

\* the script calls the handle's stop()
SuperStop ==
  /\ superInterval.handle = "live"
  /\ superInterval' = [stopSuperInterval(superInterval) EXCEPT
                         !.halted = TRUE]
  /\ UNCHANGED <<aggVars, pollVars, waitVars, debounceVars, throttleVars>>

\* controller.abort(): the "abort" event runs the listener, which is stop
SuperSignalAbort ==
  /\ ~signal.aborted
  /\ signal' = [signal EXCEPT !.aborted = TRUE]
  /\ superInterval' =
       IF signal.listeners > 0
         THEN [stopSuperInterval(superInterval) EXCEPT !.halted = TRUE]
         ELSE superInterval
  /\ UNCHANGED <<aggVars, poll, tick, cause, waitVars, debounceVars,
                 throttleVars>>

\* a message of the worker arrives, or the fallback interval fires
SuperTick ==
  /\ superInterval.worker = "running" \/ superInterval.intervalId
  /\ superInterval.calls < MaxCalls
  /\ superInterval' = guarded(superInterval)
  /\ UNCHANGED <<aggVars, pollVars, waitVars, debounceVars, throttleVars>>

\* the timeout timer fires: setTimeout(stop, timeout)
SuperTimeout ==
  /\ superInterval.timeoutId
  /\ superInterval' = [stopSuperInterval(superInterval) EXCEPT
                         !.timeoutId = FALSE, !.halted = TRUE]
  /\ UNCHANGED <<aggVars, pollVars, waitVars, debounceVars, throttleVars>>

----------------------------------------------------------------------------
(* waitCond and waitValue: a check of every producer at the call and at     *)
(* every tick of a setPolling handle, until a check finds every producer    *)
(* ready or the handle's timeout or signal cancels the wait.  api, inputs,  *)
(* options, keys and result are those of the call; poll and signal are the  *)
(* handle and the signal.  What a producer yields is chosen when it is      *)
(* invoked.                                                                 *)

WaitOptions ==
  [timeout : {"undefined", "0", "50"}, signal : BOOLEAN, nothrow : BOOLEAN]

\* a condition function or getter
Fn == [kind |-> "fn"]

\* CondInput: a function or a list of functions
CondInputs == {in \in InputsOf({Fn}) : in.shape # "record"}

\* GetterInput: a function, a list of functions or a record of functions
GetterInputs == InputsOf({Fn})

Undefined == Prim("undefined")

\* what an invocation yields: a value or an error, at once (returned /
\* thrown) or late (a promise settled by a later task)
CondOutcomes ==
  [late : BOOLEAN, ok : {TRUE}, val : Booleans]
    \cup [late : BOOLEAN, ok : {FALSE}, val : {"e1"}]

ValueOutcomes ==
  [late : BOOLEAN, ok : {TRUE},
   val : {"v1", "0", "false", "", "null", "undefined"}]
    \cup [late : BOOLEAN, ok : {FALSE}, val : {"e1"}]

IdleSlot == [st |-> "idle", ok |-> TRUE, val |-> "none"]

\* the result of an invocation: a value, or a promise still pending
Slot(out) ==
  [st |-> IF out.late THEN "pending" ELSE "settled",
   ok |-> out.ok, val |-> out.val]

NoCycle == [active |-> FALSE, pos |-> 0, slots |-> <<>>]

WaitInit ==
  /\ checking = FALSE
  /\ cycle = NoCycle
  /\ hist = [born |-> FALSE, invoked |-> <<>>, unready |-> <<>>,
             yielded |-> <<>>, cycles |-> 0, done |-> 0, first |-> "none"]

\* Boolean(x)
Truthy(v) == v \notin {"false", "0", "", "null", "undefined"}

\* a test that takes only null for "no value yet"
isNullOnly(v) == v = "null"

\* value == null
isNullish(v) == v \in {"null", "undefined"}

\* resolve(v) / reject(r) of the promise's executor: the first call settles
resolve(p, v) == IF p.state = "pending" THEN FulfilledWith(v) ELSE p

reject(p, r) == IF p.state = "pending" THEN RejectedWith(r) ELSE p

\* an onabort that rejects whatever nothrow says
condOnabortRejecting(p, reason) == reject(p, Prim(reason))

\* waitCond's onabort: nothrow ? () => resolve() : reject
condOnabort(p, reason) ==
  IF options.nothrow THEN resolve(p, Undefined) ELSE reject(p, Prim(reason))

\* an onabort that resolves with undefined under nothrow
valueOnabortUndefined(p, reason) ==
  IF options.nothrow THEN resolve(p, Undefined) ELSE reject(p, Prim(reason))

\* waitValue's onabort: nothrow ? () => resolve(null) : reject
valueOnabort(p, reason) ==
  IF options.nothrow THEN resolve(p, Null) ELSE reject(p, Prim(reason))

\* the promise after the handle went from before to after: onabort was
\* called if the handle noted a reason
notified(p, before, after) ==
  IF Len(after.aborts) > Len(before.aborts)
    THEN (IF api = "waitCond"
            THEN condOnabort(p, after.aborts[Len(after.aborts)])
            ELSE valueOnabort(p, after.aborts[Len(after.aborts)]))
    ELSE p

\* a call with an aborted signal that rejects whatever nothrow says
abortedAtCallRejecting(name, opts) == RejectedWith(Prim("signal"))

\* the promise of a call whose signal is already aborted
abortedAtCall(name, opts) ==
  IF opts.nothrow
    THEN FulfilledWith(IF name = "waitCond" THEN Undefined ELSE Null)
    ELSE RejectedWith(Prim("signal"))

\* a checkAll whose catch answers true
condCheckAllCatchTrue(slots) ==
  IF \E i \in 1..Len(slots) : slots[i].st = "settled" /\ ~slots[i].ok
    THEN TRUE
    ELSE \A i \in 1..Len(slots) : Truthy(slots[i].val)

\* waitCond's checkAll, once Promise.all has settled: false if it rejected,
\* else results.every(Boolean)
condCheckAll(slots) ==
  IF \E i \in 1..Len(slots) : slots[i].st = "settled" /\ ~slots[i].ok
    THEN FALSE
    ELSE \A i \in 1..Len(slots) : Truthy(slots[i].val)

\* getResult of waitValue
getResult(results) ==
  IF isFunction THEN results["result"]
  ELSE IF isArray THEN List([i \in 1..Len(keys) |-> results[keys[i]]])
  ELSE Obj(results)

\* a successful check that leaves the handle polling
onReadyKeepPolling(h) == h

\* a successful check calls the handle's stop()
onReady(h) == stop(h)

\* the place in the input of the producer named k
PositionOf(in, k) ==
  CHOOSE i \in 1..Len(in.items) : normalize(in)[i].key = k

\* not a ready result: an error; for a condition anything but true; for a
\* getter null or undefined
Unready(name, out) ==
  \/ ~out.ok
  \/ name = "waitCond" /\ out.val # "true"
  \/ name = "waitValue" /\ out.val \in {"null", "undefined"}

\* history: producer i was invoked and yielded out
Invoked(h, name, i, out) ==
  [h EXCEPT !.invoked[i] = @ + 1,
            !.unready[i] = @ + (IF Unready(name, out) THEN 1 ELSE 0),
            !.yielded[i] = IF out.ok THEN out.val ELSE "error"]

\* history: the producers 1..last were invoked, in that order
RECURSIVE InvokedAll(_, _, _, _)
InvokedAll(h, name, outs, last) ==
  IF last = 0 THEN h
  ELSE Invoked(InvokedAll(h, name, outs, last - 1), name, last, outs[last])

\* history: a check of n producers starts
NewCycle(h, n) ==
  [h EXCEPT !.cycles = @ + 1, !.yielded = [i \in 1..n |-> "none"]]

\* history: every producer yielded a ready result in this check
AllYieldedReady(h, name) ==
  \A i \in 1..Len(h.yielded) :
     /\ h.yielded[i] \notin {"none", "error"}
     /\ ~Unready(name, [ok |-> TRUE, val |-> h.yielded[i]])

\* check() up to its first await.  waitCond: fns.map((fn) => fn()) invokes
\* the functions in order, up to the first that throws.  waitValue: the
\* getter of the first key is invoked.
StartCheck(name, in, h) ==
  LET n == Len(in.items)
  IN  /\ checking' = TRUE
      /\ IF name = "waitCond"
           THEN \E outs \in [1..n -> CondOutcomes] :
                  LET throwers == {i \in 1..n : ~outs[i].late /\ ~outs[i].ok}
                      last == IF throwers = {} THEN n
                              ELSE CHOOSE i \in throwers :
                                     \A j \in throwers : i <= j
                  IN  /\ cycle' = [active |-> TRUE, pos |-> 0,
                                   slots |-> [i \in 1..n |->
                                                IF i <= last THEN Slot(outs[i])
                                                ELSE IdleSlot]]
                      /\ hist' = InvokedAll(NewCycle(h, n), name, outs, last)
           ELSE LET ks == ObjectKeys(normalize(in))
                IN  IF ks = <<>>
                      THEN /\ cycle' = [active |-> TRUE, pos |-> 0,
                                        slots |-> <<>>]
                           /\ hist' = NewCycle(h, n)
                      ELSE \E out \in ValueOutcomes :
                             /\ cycle' = [active |-> TRUE, pos |-> 1,
                                          slots |-> [j \in 1..n |->
                                                       IF j = 1 THEN Slot(out)
                                                       ELSE IdleSlot]]
                             /\ hist' = Invoked(NewCycle(h, n), name,
                                                PositionOf(in, ks[1]), out)

\* the call: with an aborted signal the promise is settled and nothing else
\* is done; otherwise check() runs up to its first await and setPolling
\* makes the handle
Begin(name, in, opts) ==
  /\ api' = name
  /\ inputs' = in
  /\ options' = opts
  /\ keys' = IF name = "waitValue" THEN ObjectKeys(normalize(in)) ELSE <<>>
  /\ IF opts.signal /\ signal.aborted
       THEN /\ result' = abortedAtCall(name, opts)
            /\ hist' = [hist EXCEPT
                          !.born = TRUE,
                          !.invoked = [i \in 1..Len(in.items) |-> 0],
                          !.unready = [i \in 1..Len(in.items) |-> 0]]
            /\ UNCHANGED <<checking, cycle, poll, signal, cause>>
       ELSE /\ result' = Pending
            /\ StartCheck(name, in,
                 [hist EXCEPT !.invoked = [i \in 1..Len(in.items) |-> 0],
                              !.unready = [i \in 1..Len(in.items) |-> 0]])
            /\ poll' = created([timeout |-> opts.timeout,
                                immediate |-> FALSE,
                                signal |-> opts.signal,
                                onabort |-> TRUE])
            /\ signal' = IF opts.signal
                           THEN [signal EXCEPT !.listeners = @ + 1]
                           ELSE signal
            /\ cause' = "none"
  /\ UNCHANGED <<promises, invoked, microtasks, combined, elements, chained,
                 tick, superVars, debounceVars, throttleVars>>

waitCond ==
  /\ api = "none"
  /\ \E in \in CondInputs, opts \in WaitOptions : Begin("waitCond", in, opts)

waitValue ==
  /\ api = "none"
  /\ \E in \in GetterInputs, opts \in WaitOptions :
       Begin("waitValue", in, opts)

\* a check that goes on without awaiting what the producer returned
DecidedUnawaited == cycle.active

\* the check in flight can go on: Promise.all has settled (waitCond); the
\* awaited getter has yielded (waitValue).  Its continuation is a microtask
\* and runs before any timer.
Decided ==
  /\ cycle.active
  /\ IF api = "waitCond"
       THEN \/ \E i \in 1..Len(cycle.slots) :
                 cycle.slots[i].st = "settled" /\ ~cycle.slots[i].ok
            \/ \A i \in 1..Len(cycle.slots) : cycle.slots[i].st = "settled"
       ELSE IF cycle.pos = 0 THEN TRUE
            ELSE cycle.slots[cycle.pos].st = "settled"

\* a check() that clears its guard only after a successful check
FinishGuardedOnFailure(success, value) ==
  /\ checking' = ~success
  /\ cycle' = NoCycle
  /\ hist' = [hist EXCEPT
                !.done = @ + 1,
                !.first = IF @ # "none" THEN @
                          ELSE IF AllYieldedReady(hist, api) THEN "ready"
                          ELSE "unready",
                !.yielded = IF AllYieldedReady(hist, api) THEN @
                            ELSE [i \in 1..Len(@) |-> "none"]]
  /\ IF success
       THEN /\ poll' = onReady(poll)
            /\ result' = resolve(result, value)
            /\ cause' = Caused("stop")
       ELSE UNCHANGED <<poll, result, cause>>

\* check() from the end of the cycle: on success stop() and resolve(value);
\* finally checking = false
Finish(success, value) ==
  /\ checking' = FALSE
  /\ cycle' = NoCycle
  /\ hist' = [hist EXCEPT
                !.done = @ + 1,
                !.first = IF @ # "none" THEN @
                          ELSE IF AllYieldedReady(hist, api) THEN "ready"
                          ELSE "unready",
                !.yielded = IF AllYieldedReady(hist, api) THEN @
                            ELSE [i \in 1..Len(@) |-> "none"]]
  /\ IF success
       THEN /\ poll' = onReady(poll)
            /\ result' = resolve(result, value)
            /\ cause' = Caused("stop")
       ELSE UNCHANGED <<poll, result, cause>>

\* a promise a producer returned is settled
WaitSettle ==
  /\ \E j \in 1..Len(cycle.slots) :
       /\ cycle.slots[j].st = "pending"
       /\ cycle' = [cycle EXCEPT !.slots[j].st = "settled"]
  /\ UNCHANGED <<checking, hist, aggVars, pollVars, superVars, debounceVars,
                 throttleVars>>

\* waitCond: check() continues after await checkAll()
CondDone ==
  /\ api = "waitCond"
  /\ Decided
  /\ Finish(condCheckAll(cycle.slots), Undefined)
  /\ UNCHANGED <<api, inputs, options, keys, signal>>
  /\ UNCHANGED <<promises, invoked, microtasks, combined, elements, chained,
                 tick, superVars, debounceVars, throttleVars>>

\* a tryGetAll whose loop leaves out the last key
ValueAdvanceShort ==
  /\ api = "waitValue"
  /\ Decided
  /\ LET pos == cycle.pos
         results == ByKey([j \in 1..Len(keys) |-> Prim(cycle.slots[j].val)])
     IN  IF pos = 0 THEN Finish(TRUE, getResult(results))
         ELSE IF ~cycle.slots[pos].ok \/ isNullish(cycle.slots[pos].val)
           THEN Finish(FALSE, Null)
         ELSE IF pos >= Len(keys) - 1 THEN Finish(TRUE, getResult(results))
         ELSE \E out \in ValueOutcomes :
                /\ cycle' = [cycle EXCEPT !.pos = pos + 1,
                                          !.slots[pos + 1] = Slot(out)]
                /\ hist' = Invoked(hist, api,
                                   PositionOf(inputs, keys[pos + 1]), out)
                /\ UNCHANGED <<checking, poll, result, cause>>
  /\ UNCHANGED <<api, inputs, options, keys, signal>>
  /\ UNCHANGED <<promises, invoked, microtasks, combined, elements, chained,
                 tick, superVars, debounceVars, throttleVars>>

\* waitValue: tryGetAll continues after its await: it gives up on an error
\* and on null / undefined, else stores the value and invokes the next
\* getter, or returns the results to check()
ValueAdvance ==
  /\ api = "waitValue"
  /\ Decided
  /\ LET pos == cycle.pos
         results == ByKey([j \in 1..Len(keys) |-> Prim(cycle.slots[j].val)])
     IN  IF pos = 0 THEN Finish(TRUE, getResult(results))
         ELSE IF ~cycle.slots[pos].ok \/ isNullish(cycle.slots[pos].val)
           THEN Finish(FALSE, Null)
         ELSE IF pos = Len(keys) THEN Finish(TRUE, getResult(results))
         ELSE \E out \in ValueOutcomes :
                /\ cycle' = [cycle EXCEPT !.pos = pos + 1,
                                          !.slots[pos + 1] = Slot(out)]
                /\ hist' = Invoked(hist, api,
                                   PositionOf(inputs, keys[pos + 1]), out)
                /\ UNCHANGED <<checking, poll, result, cause>>
  /\ UNCHANGED <<api, inputs, options, keys, signal>>
  /\ UNCHANGED <<promises, invoked, microtasks, combined, elements, chained,
                 tick, superVars, debounceVars, throttleVars>>

\* the interval timer fires: check() returns at once while a check is in
\* flight
WaitTick ==
  /\ api \in {"waitCond", "waitValue"}
  /\ poll.intervalId
  /\ ~Decided
  /\ poll.calls < MaxCalls
  /\ poll' = callback(poll)
  /\ IF checking THEN UNCHANGED waitVars
     ELSE StartCheck(api, inputs, hist)
  /\ UNCHANGED <<aggVars, signal, tick, cause, superVars, debounceVars,
                 throttleVars>>

\* the timeout timer fires
WaitTimeout ==
  /\ api \in {"waitCond", "waitValue"}
  /\ poll.timeoutId
  /\ ~Decided
  /\ poll' = onTimeout([poll EXCEPT !.timeoutId = FALSE])
  /\ result' = notified(result, poll, poll')
  /\ cause' = Caused("timeout")
  /\ UNCHANGED <<api, inputs, options, keys, signal, waitVars>>
  /\ UNCHANGED <<promises, invoked, microtasks, combined, elements, chained,
                 tick, superVars, debounceVars, throttleVars>>

\* controller.abort(), before the call or during the wait
WaitSignalAbort ==
  /\ ~signal.aborted
  /\ signal' = [signal EXCEPT !.aborted = TRUE]
  /\ poll' = IF signal.listeners > 0 THEN onSignalAbort(poll) ELSE poll
  /\ result' = notified(result, poll, poll')
  /\ cause' = Caused("signal")
  /\ UNCHANGED <<api, inputs, options, keys, waitVars>>
  /\ UNCHANGED <<promises, invoked, microtasks, combined, elements, chained,
                 tick, superVars, debounceVars, throttleVars>>

----------------------------------------------------------------------------
(* debounce: each call of the debounced function clears the timer of the   *)
(* call before and sets a timer for its own closure.  A timer fires at or   *)
(* after its due time.  The signal is the one of the setPolling model.      *)

Args == {"x", "y"}

\* opts: a number, or { delay, signal }
DebounceOptions == [delay : 1..MaxDelay, signal : BOOLEAN]

\* before the call of debounce; pending "noop" is the initial () => {};
\* fate is what became of the latest call (history): "pending" while its
\* timer is set, "cancel", "flush", "abort" or "timer" for what ended that,
\* "ignored" if the call set no timer
DebounceInit ==
  /\ debounced = [made |-> FALSE, delay |-> 1, signal |-> FALSE,
                  timeoutId |-> 0, timers |-> {}, pending |-> "noop",
                  log |-> <<>>, disturbed |-> FALSE, fate |-> "none"]
  /\ now = 0

CallAt(at, args) == [type |-> "call", at |-> at, args |-> args]

ExecAt(at, args) == [type |-> "exec", at |-> at, args |-> args]

\* const cancel = () => clearTimeout(timeoutId)
cancel(d) == [d EXCEPT !.timers = {t \in @ : t.id # d.timeoutId}]

\* the closure pending of a call with args: f(...args) unless the signal
\* is aborted
run(d, args) ==
  IF d.signal /\ signal.aborted THEN d
  ELSE [d EXCEPT !.log = Append(@, ExecAt(now, args))]

\* pending()
runPending(d) == IF d.pending = "noop" THEN d ELSE run(d, d.pending)

\* const flush = () => { cancel(); pending(); }
flush(d) == runPending(cancel(d))

\* a call that sets its timer without clearing the one before
calledWithoutCancel(d, args) ==
  IF d.signal /\ signal.aborted THEN d
  ELSE [d EXCEPT !.pending = args,
                 !.timeoutId = @ + 1,
                 !.timers = @ \cup {[id |-> d.timeoutId + 1,
                                     due |-> now + d.delay,
                                     args |-> args]}]

\* debounced(...args)
called(d, args) ==
  LET c == cancel(d)
  IN  IF c.signal /\ signal.aborted THEN c
      ELSE [c EXCEPT !.pending = args,
                     !.timeoutId = @ + 1,
                     !.timers = @ \cup {[id |-> c.timeoutId + 1,
                                         due |-> now + c.delay,
                                         args |-> args]}]

CallsOf(d) == Len(SelectSeq(d.log, LAMBDA e : e.type = "call"))

\* the call debounce(f, opts)
debounce ==
  /\ ~debounced.made
  /\ ~throttled.made
  /\ \E opts \in DebounceOptions :
       /\ debounced' = [debounced EXCEPT !.made = TRUE,
                                         !.delay = opts.delay,
                                         !.signal = opts.signal]
       /\ signal' = IF opts.signal THEN [signal EXCEPT !.listeners = @ + 1]
                    ELSE signal
  /\ UNCHANGED <<aggVars, poll, tick, cause, superVars, waitVars,
                 throttleVars, now>>

\* history: the step from d to e ended a pending call by the given way
Fated(d, e, by) ==
  [e EXCEPT !.fate = IF d.timers # {} THEN by ELSE @]

\* the script calls the debounced function
DebouncedCall ==
  /\ debounced.made
  /\ CallsOf(debounced) < MaxBurst
  /\ \E args \in Args :
       LET d == called([debounced EXCEPT
                          !.log = Append(@, CallAt(now, args))], args)
       IN  debounced' = [d EXCEPT !.fate = IF d.timers # {} THEN "pending"
                                           ELSE "ignored"]
  /\ UNCHANGED <<aggVars, pollVars, superVars, waitVars, throttleVars, now>>

\* the script calls debounced.cancel()
DebouncedCancel ==
  /\ debounced.made
  /\ debounced' = Fated(debounced,
                         [cancel(debounced) EXCEPT !.disturbed = TRUE],
                         "cancel")
  /\ UNCHANGED <<aggVars, pollVars, superVars, waitVars, throttleVars, now>>

\* the script calls debounced.flush()
DebouncedFlush ==
  /\ debounced.made
  /\ Len(debounced.log) < 2 * MaxBurst
  /\ debounced' = Fated(debounced,
                         [flush(debounced) EXCEPT !.disturbed = TRUE],
                         "flush")
  /\ UNCHANGED <<aggVars, pollVars, superVars, waitVars, throttleVars, now>>

\* controller.abort(): the "abort" event runs the listener, which is cancel
DebounceSignalAbort ==
  /\ ~signal.aborted
  /\ ~throttled.made
  /\ signal' = [signal EXCEPT !.aborted = TRUE]
  /\ debounced' = IF signal.listeners > 0
                    THEN Fated(debounced,
                               [cancel(debounced) EXCEPT !.disturbed = TRUE],
                               "abort")
                    ELSE debounced
  /\ UNCHANGED <<aggVars, poll, tick, cause, superVars, waitVars,
                 throttleVars, now>>

\* a timer fires, at or after its due time, and runs its closure
DebounceTimer ==
  /\ \E t \in debounced.timers :
       /\ now >= t.due
       /\ debounced' = Fated(debounced,
                              run([debounced EXCEPT !.timers = @ \ {t}],
                                  t.args),
                              "timer")
  /\ UNCHANGED <<aggVars, pollVars, superVars, waitVars, throttleVars, now>>

\* time passes
Advance ==
  /\ now < MaxTime
  /\ now' = now + 1
  /\ UNCHANGED <<aggVars, pollVars, superVars, waitVars,
                 throttleVars, debounced>>

----------------------------------------------------------------------------
(* throttle: a call executes f at once (leading) when the interval has      *)
(* passed since lastCallTime, and otherwise keeps its arguments for one     *)
(* trailing timer.  The clock and the signal are those of debounce.  The    *)
(* model runs one limiter, debounce or throttle, in a behaviour.            *)

\* opts: a number, or { interval, leading, trailing, signal }
ThrottleOptions ==
  [interval : 1..MaxDelay, leading : BOOLEAN, trailing : BOOLEAN,
   signal : BOOLEAN]

\* Date.now() when the clock of the model reads 0: lastCallTime starts at 0
\* and Date.now() is later than any interval after it
Epoch == MaxDelay

DateNow == Epoch + now

\* before the call of throttle; timeoutId is "timeoutId !== null", timer is
\* whether the timer is pending in the event loop, lastArgs "null" is null;
\* fate is what became of the latest call (history): "lead" executed at the
\* call, "trail" kept for the trailing timer, "dropped" neither, "ignored"
\* returned at the aborted signal
ThrottleInit ==
  throttled = [made |-> FALSE, interval |-> 1, leading |-> TRUE,
               trailing |-> TRUE, signal |-> FALSE, timeoutId |-> FALSE,
               timer |-> FALSE, due |-> 0, lastArgs |-> "null",
               lastCallTime |-> 0, calls |-> 0, execs |-> <<>>,
               fate |-> "none"]

\* const cancel = () => { if (timeoutId !== null) {...}; lastArgs = null; }
throttleCancel(t) ==
  [(IF t.timeoutId THEN [t EXCEPT !.timer = FALSE, !.timeoutId = FALSE]
    ELSE t) EXCEPT !.lastArgs = "null"]

\* the closure of the trailing timer
trailingFn(t) ==
  IF t.signal /\ signal.aborted THEN t
  ELSE [(IF t.lastArgs # "null"
           THEN [t EXCEPT !.lastCallTime = DateNow,
                          !.execs = Append(@, ExecAt(now, t.lastArgs)),
                          !.lastArgs = "null"]
           ELSE t) EXCEPT !.timeoutId = FALSE]

\* if (timeoutId === null) timeoutId = setTimeout(..., ms)
setTrailing(t, ms) ==
  IF t.timeoutId THEN t
  ELSE [t EXCEPT !.timeoutId = TRUE, !.timer = TRUE, !.due = now + ms]

\* a call that does not look at the signal
throttledCallUnguarded(t, args) ==
  LET elapsed == DateNow - t.lastCallTime
  IN  IF elapsed >= t.interval
        THEN IF t.leading
               THEN [t EXCEPT !.lastCallTime = DateNow,
                              !.execs = Append(@, ExecAt(now, args)),
                              !.fate = "lead"]
               ELSE IF t.trailing
                 THEN setTrailing([t EXCEPT !.lastArgs = args,
                                            !.lastCallTime = DateNow,
                                            !.fate = "trail"],
                                  t.interval)
                 ELSE [t EXCEPT !.fate = "dropped"]
        ELSE IF t.trailing
               THEN setTrailing([t EXCEPT !.lastArgs = args,
                                          !.fate = "trail"],
                                t.interval - elapsed)
               ELSE [t EXCEPT !.fate = "dropped"]

\* throttled(...args)
throttledCall(t, args) ==
  IF t.signal /\ signal.aborted THEN [t EXCEPT !.fate = "ignored"]
  ELSE LET elapsed == DateNow - t.lastCallTime
       IN  IF elapsed >= t.interval
             THEN IF t.leading
                    THEN [t EXCEPT !.lastCallTime = DateNow,
                                   !.execs = Append(@, ExecAt(now, args)),
                                   !.fate = "lead"]
                    ELSE IF t.trailing
                      THEN setTrailing([t EXCEPT !.lastArgs = args,
                                                 !.lastCallTime = DateNow,
                                                 !.fate = "trail"],
                                       t.interval)
                      ELSE [t EXCEPT !.fate = "dropped"]
             ELSE IF t.trailing
                    THEN setTrailing([t EXCEPT !.lastArgs = args,
                                               !.fate = "trail"],
                                     t.interval - elapsed)
                    ELSE [t EXCEPT !.fate = "dropped"]

\* the call throttle(f, opts)
throttle ==
  /\ ~throttled.made
  /\ ~debounced.made
  /\ \E opts \in ThrottleOptions :
       /\ throttled' = [throttled EXCEPT !.made = TRUE,
                                         !.interval = opts.interval,
                                         !.leading = opts.leading,
                                         !.trailing = opts.trailing,
                                         !.signal = opts.signal]
       /\ signal' = IF opts.signal THEN [signal EXCEPT !.listeners = @ + 1]
                    ELSE signal
  /\ UNCHANGED <<aggVars, poll, tick, cause, superVars, waitVars,
                 debounceVars>>

\* the script calls the throttled function
ThrottledCall ==
  /\ throttled.made
  /\ throttled.calls < MaxThrottled
  /\ \E args \in Args :
       throttled' = throttledCall([throttled EXCEPT !.calls = @ + 1], args)
  /\ UNCHANGED <<aggVars, pollVars, superVars, waitVars, debounceVars>>

\* the script calls throttled.cancel()
ThrottledCancel ==
  /\ throttled.made
  /\ throttled' = throttleCancel(throttled)
  /\ UNCHANGED <<aggVars, pollVars, superVars, waitVars, debounceVars>>

\* controller.abort(): the "abort" event runs the listener, which is cancel
ThrottleSignalAbort ==
  /\ ~signal.aborted
  /\ ~debounced.made
  /\ signal' = [signal EXCEPT !.aborted = TRUE]
  /\ throttled' = IF signal.listeners > 0 THEN throttleCancel(throttled)
                  ELSE throttled
  /\ UNCHANGED <<aggVars, poll, tick, cause, superVars, waitVars,
                 debounceVars>>

\* the trailing timer fires, at or after its due time
ThrottleTimer ==
  /\ throttled.timer
  /\ now >= throttled.due
  /\ throttled' = trailingFn([throttled EXCEPT !.timer = FALSE])
  /\ UNCHANGED <<aggVars, pollVars, superVars, waitVars, debounceVars>>

----------------------------------------------------------------------------
(* Specifications *)

Init ==
  /\ AggInit /\ PollInit /\ SuperInit /\ WaitInit /\ DebounceInit
  /\ ThrottleInit

NextResolveAll == resolveAll \/ Invoke \/ Settle \/ React \/ Then \/ Catch

NextCheckAll == checkAll \/ Invoke \/ Settle \/ React \/ Then \/ Catch

NextPolling ==
  setPolling \/ Stop \/ Abort \/ SignalAbort \/ Yield \/ Tick \/ Timeout

SpecResolveAll == Init /\ [][NextResolveAll]_vars

\* either aggregator, with producers whose outcome is fixed by the call
NextPrompt ==
  resolveAllPrompt \/ checkAllPrompt \/ Invoke \/ Adopt \/ Adopted \/ React
    \/ Then \/ Catch

SpecPrompt == Init /\ [][NextPrompt]_vars

SpecCheckAll == Init /\ [][NextCheckAll]_vars

SpecPolling == Init /\ [][NextPolling]_vars

NextSuperInterval ==
  setSuperInterval \/ SuperStop \/ SuperSignalAbort \/ SuperTick
    \/ SuperTimeout

SpecSuperInterval == Init /\ [][NextSuperInterval]_vars

NextWait ==
  waitCond \/ waitValue \/ WaitSettle \/ CondDone \/ ValueAdvance
    \/ WaitTick \/ WaitTimeout \/ WaitSignalAbort

SpecWait == Init /\ [][NextWait]_vars

\* the options of a wait with a positive timeout and a signal
TimedOptions ==
  {opts \in WaitOptions : ToBoolean(opts.timeout) /\ opts.signal}

\* waitCond(fns, { timeout, signal, ... }) with a positive timeout
waitCondTimed ==
  /\ api = "none"
  /\ \E in \in CondInputs, opts \in TimedOptions : Begin("waitCond", in, opts)

\* waitValue(getters, { timeout, signal, ... }) with a positive timeout
waitValueTimed ==
  /\ api = "none"
  /\ \E in \in GetterInputs, opts \in TimedOptions :
       Begin("waitValue", in, opts)

NextWaitTimed ==
  \/ waitCondTimed \/ waitValueTimed
  \/ WaitSettle \/ CondDone \/ ValueAdvance
  \/ WaitTick \/ WaitTimeout

\* the waits with a timeout whose signal is not aborted, under the
\* scheduling of the event loop: a timer that is set fires, and the
\* continuation of a settled await runs.  A promise that a producer
\* returned need not ever settle.
SpecWaitFair ==
  /\ Init
  /\ [][NextWaitTimed]_vars
  /\ WF_vars(WaitTimeout)
  /\ WF_vars(CondDone)
  /\ WF_vars(ValueAdvance)

NextDebounce ==
  debounce \/ DebouncedCall \/ DebouncedCancel \/ DebouncedFlush
    \/ DebounceSignalAbort \/ DebounceTimer \/ Advance

SpecDebounce == Init /\ [][NextDebounce]_vars

NextThrottle ==
  throttle \/ ThrottledCall \/ ThrottledCancel \/ ThrottleSignalAbort
    \/ ThrottleTimer \/ Advance

SpecThrottle == Init /\ [][NextThrottle]_vars

\* either limiter, with the signal aborted at any moment
NextLimiters == NextDebounce \/ NextThrottle

SpecLimiters == Init /\ [][NextLimiters]_vars

----------------------------------------------------------------------------
(* Properties of resolveAll and checkAll *)

Items == inputs.items

AllFulfil == \A i \in 1..Len(Items) : Items[i].ok

AnyFails == \E i \in 1..Len(Items) : ~Items[i].ok

AnyFalse == \E i \in 1..Len(Items) : Items[i].ok /\ Items[i].val = "false"

\* every producer has settled and every reaction has run
Quiet ==
  /\ microtasks = <<>>
  /\ \A i \in 1..Len(promises) : promises[i].state # "pending"

\* per producer, its value; and its outcome as a PromiseSettledResult
PlainSlots == [i \in 1..Len(Items) |-> Prim(Items[i].val)]

SettledSlots ==
  [i \in 1..Len(Items) |->
     IF Items[i].ok THEN Fulfilled(Prim(Items[i].val))
     ELSE Rejected(Prim(Items[i].val))]

\* the input's shape with slots[i] in the place of the i-th producer
Shaped(slots) ==
  CASE inputs.shape = "single" -> slots[1]
    [] inputs.shape = "array" -> List(slots)
    [] OTHER ->
         Obj([k \in Range(inputs.names) |->
                slots[CHOOSE i \in 1..Len(Items) : inputs.names[i] = k]])

FailFast(name) ==
  api = name /\ ~options.settled /\ ~options.nothrow

SettledMode(name) ==
  api = name /\ options.settled /\ ~options.nothrow

\* C1: in fail-fast mode, when every producer fulfils, resolveAll never
\* rejects, resolves once all have settled, and resolves to the input's
\* shape with each producer's value in its slot (one value, a list of the
\* same length and order, a record with exactly the input's keys).
C1_ResolvesInShape ==
  (FailFast("resolveAll") /\ AllFulfil) =>
     /\ result.state # "rejected"
     /\ result.state = "fulfilled" => result.value = Shaped(PlainSlots)
     /\ Quiet => result.state = "fulfilled"

C1_Witness ==
  /\ FailFast("resolveAll") /\ AllFulfil
  /\ result.state = "fulfilled"
  /\ inputs.shape = "array"
  /\ Len(Items) >= 2
  /\ Items[1].val # Items[2].val

\* C2: in fail-fast mode, when a producer throws, rejects or is an already
\* rejected promise, resolveAll never resolves, and what it rejects with is
\* the reason of one failing producer, as it was thrown: not wrapped, not a
\* collection of outcomes.
C2_RejectsWithOneReason ==
  (FailFast("resolveAll") /\ AnyFails) =>
     /\ result.state # "fulfilled"
     /\ result.state = "rejected" =>
          \E i \in 1..Len(Items) :
            ~Items[i].ok /\ result.reason = Prim(Items[i].val)
     /\ Quiet => result.state = "rejected"

C2_Witness ==
  /\ FailFast("resolveAll")
  /\ result.state = "rejected"
  /\ \E i, j \in 1..Len(Items) :
       /\ Items[i].ok
       /\ ~Items[j].ok /\ Items[j].kind = "fn" /\ ~Items[j].late

\* C3: in settled mode, when a producer fails, resolveAll rejects with the
\* outcomes of all producers in the input's shape ({status: "fulfilled",
\* value} or {status: "rejected", reason} in each slot); when none fails it
\* resolves with the plain values in the input's shape.
C3_SettledOutcomes ==
  SettledMode("resolveAll") =>
     /\ AnyFails =>
          /\ result.state # "fulfilled"
          /\ result.state = "rejected" => result.reason = Shaped(SettledSlots)
     /\ AllFulfil =>
          /\ result.state # "rejected"
          /\ result.state = "fulfilled" => result.value = Shaped(PlainSlots)
     /\ Quiet => result.state # "pending"

C3_Witness ==
  /\ SettledMode("resolveAll")
  /\ result.state = "rejected"
  /\ inputs.shape = "array"
  /\ \E i, j \in 1..Len(Items) : Items[i].ok /\ ~Items[j].ok

\* C4: with nothrow, settled or not, resolveAll never rejects: it resolves
\* to null when a producer fails and to the shaped values otherwise.
C4_NothrowNeverRejects ==
  (api = "resolveAll" /\ options.nothrow) =>
     /\ result.state # "rejected"
     /\ result.state = "fulfilled" =>
          result.value = IF AnyFails THEN Null ELSE Shaped(PlainSlots)
     /\ Quiet => result.state = "fulfilled"

C4_Witness ==
  /\ api = "resolveAll" /\ options.nothrow /\ ~options.settled
  /\ AnyFails
  /\ result.state = "fulfilled"
  /\ result.value = Null

\* the key, in normalized key order, of the first producer yielding false
FirstFalseKey ==
  keys[CHOOSE i \in 1..Len(keys) :
         /\ InputAt(i).ok /\ InputAt(i).val = "false"
         /\ \A j \in 1..(i - 1) : ~(InputAt(j).ok /\ InputAt(j).val = "false")]

\* C5: in fail-fast mode, when every producer fulfils and one yields false,
\* checkAll never resolves, and rejects with an Error whose message holds
\* the key of the first false producer in key order.
C5_ErrorNamesFirstFalseKey ==
  (FailFast("checkAll") /\ AllFulfil /\ AnyFalse) =>
     /\ result.state # "fulfilled"
     /\ result.state = "rejected" =>
          /\ result.reason.t = "Error"
          /\ FirstFalseKey \in Range(result.reason.message)
     /\ Quiet => result.state = "rejected"

C5_Witness ==
  /\ FailFast("checkAll") /\ AllFulfil
  /\ result.state = "rejected"
  /\ Len(Items) >= 2
  /\ \A i \in 1..Len(Items) : Items[i].val = "false"

\* C6: in settled mode, a producer yielding false is recorded as the
\* fulfilled outcome {status: "fulfilled", value: false}, yet makes checkAll
\* reject with the outcomes in the input's shape; checkAll resolves, to
\* true, only if every producer fulfilled with true.
C6_FalseIsFulfilledButFails ==
  SettledMode("checkAll") =>
     /\ result.state = "rejected" => result.reason = Shaped(SettledSlots)
     /\ (AnyFails \/ AnyFalse) => result.state # "fulfilled"
     /\ result.state = "fulfilled" =>
          /\ result.value = True
          /\ \A i \in 1..Len(Items) : Items[i].ok /\ Items[i].val = "true"
     /\ Quiet => result.state # "pending"

C6_Witness ==
  /\ SettledMode("checkAll")
  /\ AllFulfil /\ AnyFalse
  /\ result.state = "rejected"
  /\ Len(Items) >= 2

\* C7: with nothrow, settled or not, checkAll never rejects: it resolves to
\* true exactly when every producer fulfils with true and to false when one
\* yields false, throws or rejects.
C7_NothrowYieldsBoolean ==
  (api = "checkAll" /\ options.nothrow) =>
     /\ result.state # "rejected"
     /\ result.state = "fulfilled" =>
          result.value = IF AnyFails \/ AnyFalse THEN False ELSE True
     /\ Quiet => result.state = "fulfilled"

C7_Witness ==
  /\ api = "checkAll" /\ options.nothrow /\ ~options.settled
  /\ AnyFails
  /\ result.state = "fulfilled"
  /\ result.value = False

----------------------------------------------------------------------------
(* Properties of setPolling *)

\* C8: whatever stop(), abort(), signal abort and timeout expiry occur, in
\* whatever order and number, onabort is invoked at most once.
C8_OnabortAtMostOnce == Len(poll.aborts) <= 1

C8_Witness ==
  /\ Len(poll.aborts) = 1
  /\ poll.options.timeout = "50" /\ ~poll.timeoutId
  /\ {"stop", "abort", "signal"} \subseteq Range(tick.ops)
  /\ Len(tick.ops) > 3

\* stop(), abort() and the abort of the handle's signal have all occurred in
\* the current synchronous run, which found the handle running, with an
\* onabort callback
AllInOneTick ==
  /\ tick.running
  /\ poll.options.onabort /\ poll.options.signal
  /\ {"stop", "abort", "signal"} \subseteq Range(tick.ops)

\* C9 as stated: when stop(), abort() and the signal's abort all occur in
\* one tick on a running handle, in whatever order, onabort is invoked
\* exactly once.
C9_ExactlyOnceInAnyOrder == AllInOneTick => Len(poll.aborts) = 1

\* C9 as amended: when stop(), abort() and the signal's abort all occur in
\* one tick on a running handle, onabort is invoked exactly once, with the
\* reason of the first of them, if abort() or the signal's abort comes
\* first, and not at all if stop() comes first.
C9_OnceUnlessStopFirst ==
  AllInOneTick =>
    poll.aborts = CASE tick.ops[1] = "stop" -> <<>>
                    [] tick.ops[1] = "abort" -> <<"manual">>
                    [] OTHER -> <<"signal">>

C9_Witness ==
  /\ AllInOneTick
  /\ tick.ops[1] = "signal"
  /\ poll.aborts = <<"signal">>

\* C10: once the handle is Stopped it stays Stopped, and no step invokes
\* its callback again.
C10_StoppedForGood ==
  [][Stopped => (Stopped' /\ poll'.calls = poll.calls)]_vars

C10_Witness ==
  /\ poll.handle = "live" /\ poll.stopped
  /\ poll.calls >= 1 /\ poll.calls < MaxCalls
  /\ poll.options.timeout = "50" /\ ~poll.timeoutId
  /\ signal.aborted

\* the reason onabort is given for each cause of the handle's stopping
ReasonOf(by) ==
  CASE by = "abort" -> <<"manual">>
    [] by = "signal" -> <<"signal">>
    [] by = "timeout" -> <<"timeout">>
    [] OTHER -> <<>>

\* C11: the reason onabort is given is the cause of the handle's stopping:
\* "manual" exactly when abort() stopped it, "signal" exactly when the
\* signal's abort did, "timeout" exactly when the timeout's expiry did; when
\* stop() stopped it onabort is never invoked, whatever abort(), signal
\* abort or timeout comes later.
C11_ReasonIsCause ==
  (poll.handle = "live" /\ poll.options.onabort) =>
    poll.aborts = ReasonOf(cause)

C11_Witness ==
  /\ poll.handle = "live" /\ poll.options.onabort
  /\ cause = "stop" /\ poll.aborts = <<>>
  /\ poll.options.timeout = "50" /\ ~poll.timeoutId
  /\ signal.aborted /\ poll.options.signal
  /\ "abort" \in Range(tick.ops)

\* C12: a handle made with a signal that is already aborted never invokes
\* its callback, by the immediate option or by a tick; onabort has been
\* invoked once, with "signal", when setPolling returns, and never again;
\* stop() and abort() change nothing.
C12_BornStopped ==
  (cause = "born") =>
    /\ poll.calls = 0
    /\ ~poll.intervalId /\ ~poll.timeoutId
    /\ poll.aborts = IF poll.options.onabort THEN <<"signal">> ELSE <<>>

C12_Witness ==
  /\ cause = "born"
  /\ poll.options.immediate /\ poll.options.onabort
  /\ poll.options.timeout = "50"
  /\ poll.aborts = <<"signal">>
  /\ {"stop", "abort"} \subseteq Range(tick.ops)

----------------------------------------------------------------------------
(* Properties of setSuperInterval *)

\* C13: once stop() has been called, the handle's signal has aborted or the
\* timeout has elapsed, no step invokes the callback; and a handle made
\* with a signal that is already aborted never invokes it, even with
\* immediate.
C13_NoCallAfterHalt ==
  [][/\ superInterval.halted => superInterval'.calls = superInterval.calls
     /\ superInterval'.born => superInterval'.calls = 0]_vars

C13_Witness ==
  /\ superInterval.halted
  /\ superInterval.worker = "terminated"
  /\ superInterval.calls >= 1 /\ superInterval.calls < MaxCalls
  /\ superInterval.options.timeout = "50" /\ superInterval.timeoutId

\* a handle made with an aborted signal and immediate, its timer still
\* armed, has not called
C13_BornWitness ==
  /\ superInterval.born /\ superInterval.options.immediate
  /\ superInterval.intervalId
  /\ superInterval.calls = 0

----------------------------------------------------------------------------
(* Properties of waitCond and waitValue *)

Waiting == api \in {"waitCond", "waitValue"}

\* how a cancellation by the given cause settles the wait
Cancelled(by) ==
  IF options.nothrow
    THEN FulfilledWith(IF api = "waitCond" THEN Undefined ELSE Null)
    ELSE RejectedWith(Prim(by))

\* the first check has completed and every condition yielded true in it
FirstCheckTrue == api = "waitCond" /\ hist.first = "ready"

\* C14 as stated: if every condition is true at the first check, waitCond
\* resolves, each producer is invoked exactly once and no tick runs a check.
C14_ResolvesAtFirstCheck ==
  FirstCheckTrue =>
    /\ result = FulfilledWith(Undefined)
    /\ hist.cycles = 1
    /\ \A i \in 1..Len(hist.invoked) : hist.invoked[i] = 1

\* C14 as amended: if every condition is true at the first check, each
\* producer is invoked exactly once and no tick runs a check: the interval
\* is cleared when that check completes; waitCond then resolves, unless the
\* timeout or the signal cancelled it while that check was in flight, in
\* which case the cancellation has settled it.
C14_CheckedOnceUnlessCancelled ==
  FirstCheckTrue =>
    /\ hist.cycles = 1
    /\ \A i \in 1..Len(hist.invoked) : hist.invoked[i] = 1
    /\ ~poll.intervalId
    /\ result = IF poll.aborts = <<>> THEN FulfilledWith(Undefined)
                ELSE Cancelled(poll.aborts[1])

C14_Witness ==
  /\ FirstCheckTrue
  /\ Len(inputs.items) = 2
  /\ options.timeout = "50" /\ poll.timeoutId
  /\ poll.calls >= 1
  /\ poll.aborts = <<>>
  /\ result = FulfilledWith(Undefined)

\* C15: a waitCond cancelled by its timeout or its signal before a check
\* succeeded rejects with the first cause, "timeout" or "signal", or
\* resolves under nothrow; waitCond rejects with nothing else.
C15_CondCancelled ==
  api = "waitCond" =>
    /\ cause \in {"timeout", "signal"} => result = Cancelled(cause)
    /\ result.state = "rejected" =>
         /\ ~options.nothrow
         /\ result.reason \in {Prim("timeout"), Prim("signal")}

C15_Witness ==
  /\ api = "waitCond"
  /\ cause = "timeout" /\ signal.aborted /\ options.signal
  /\ ~options.nothrow
  /\ hist.unready[1] >= 1
  /\ result = RejectedWith(Prim("timeout"))

\* C16: without timeout or signal the wait never rejects; a producer that
\* is not ready k times (the others being ready) is invoked once per check,
\* k + 1 times when the wait has resolved, and the wait has resolved once a
\* check found every producer ready.
C16_RetriedUntilReady ==
  (Waiting /\ options.timeout = "undefined" /\ ~options.signal) =>
    /\ result.state # "rejected"
    /\ \A i \in 1..Len(hist.invoked) :
         (\A j \in 1..Len(hist.invoked) : j # i => hist.unready[j] = 0) =>
           /\ hist.invoked[i] <= hist.unready[i] + 1
           /\ result.state = "fulfilled" =>
                hist.invoked[i] = hist.unready[i] + 1
    /\ Len(hist.invoked) = 1 =>
         /\ hist.invoked[1] = hist.cycles
         /\ hist.cycles <= 1 + poll.calls
    /\ (~cycle.active /\ hist.done >= 1 /\ AllYieldedReady(hist, api)) =>
         result.state = "fulfilled"

C16_Witness ==
  /\ api = "waitCond" /\ options.timeout = "undefined" /\ ~options.signal
  /\ inputs.shape = "single"
  /\ hist.unready[1] = 2 /\ hist.invoked[1] = 3
  /\ result = FulfilledWith(Undefined)

C16_ValueWitness ==
  /\ api = "waitValue" /\ options.timeout = "undefined" /\ ~options.signal
  /\ inputs.shape = "single"
  /\ hist.unready[1] = 2 /\ hist.invoked[1] = 3
  /\ result = FulfilledWith(Prim("v1"))

\* C17: a wait called with a signal that is already aborted invokes no
\* producer and arms no timer; it is rejected with "signal", or under
\* nothrow resolved with undefined (waitCond) or null (waitValue).
C17_AbortedAtCall ==
  hist.born =>
    /\ \A i \in 1..Len(hist.invoked) : hist.invoked[i] = 0
    /\ hist.cycles = 0
    /\ poll.handle = "none" /\ ~poll.intervalId /\ ~poll.timeoutId
    /\ signal.listeners = 0
    /\ result = Cancelled("signal")

C17_Witness ==
  /\ hist.born
  /\ api = "waitValue" /\ Len(inputs.items) = 2
  /\ options.nothrow /\ options.timeout = "50"
  /\ result = FulfilledWith(Null)

\* C18: waitValue resolves with the values of the first check in which
\* every getter yielded a value other than null and undefined (false, 0
\* and "" are values), in the shape of the input; a check in which a
\* getter yielded null or undefined does not resolve it.
C18_FirstReadyCheckShaped ==
  api = "waitValue" =>
    /\ (result.state = "fulfilled" /\ poll.aborts = <<>> /\ ~hist.born) =>
         /\ AllYieldedReady(hist, api)
         /\ result.value = Shaped([i \in 1..Len(hist.yielded) |->
                                     Prim(hist.yielded[i])])
    /\ (~cycle.active /\ hist.done >= 1 /\ AllYieldedReady(hist, api)) =>
         /\ result.state # "pending"
         /\ ~poll.intervalId

C18_Witness ==
  /\ api = "waitValue"
  /\ inputs.shape = "record" /\ inputs.names = <<"a", "0">>
  /\ hist.done >= 2
  /\ result.state = "fulfilled"
  /\ result.value = Obj([k \in {"a", "0"} |->
                           IF k = "a" THEN Prim("false") ELSE Prim("0")])

\* C19: a waitValue cancelled by its timeout or its signal before a check
\* succeeded resolves with null under nothrow and else rejects with the
\* cause; under nothrow it never rejects.
C19_ValueCancelled ==
  api = "waitValue" =>
    /\ cause \in {"timeout", "signal"} => result = Cancelled(cause)
    /\ options.nothrow => result.state # "rejected"

C19_Witness ==
  /\ api = "waitValue"
  /\ cause = "signal" /\ options.nothrow
  /\ cycle.active
  /\ result = FulfilledWith(Null)

----------------------------------------------------------------------------
(* Properties of debounce *)

\* only calls and timers so far: no cancel() or flush(), and the signal,
\* if there is one, is not aborted
Undisturbed ==
  /\ debounced.made /\ ~debounced.disturbed
  /\ ~(debounced.signal /\ signal.aborted)

\* the place in the log of the last call before place p, or 0
LastCallBefore(p) ==
  LET before == {q \in 1..(p - 1) : debounced.log[q].type = "call"}
  IN  IF before = {} THEN 0
      ELSE CHOOSE q \in before : \A r \in before : r <= q

\* C20: under calls and timers only, every execution of f is that of the
\* call before it, once, with its arguments and not before its delay has
\* passed; a call followed within less than the delay by another call is not
\* executed; and when no timer is left the last call has been executed.
C20_OncePerBurst ==
  Undisturbed =>
    LET log == debounced.log
    IN  /\ \A p \in 1..Len(log) :
             log[p].type = "exec" =>
               /\ p > 1
               /\ log[p - 1].type = "call"
               /\ log[p].args = log[p - 1].args
               /\ log[p].at >= log[p - 1].at + debounced.delay
        /\ \A p \in 1..(Len(log) - 1) :
             (/\ log[p].type = "call"
              /\ log[p + 1].type = "exec") =>
               \A q \in (p + 1)..Len(log) :
                  log[q].type = "call" =>
                    log[q].at - log[p].at >= debounced.delay
        /\ (debounced.timers = {} /\ log # <<>>) =>
             log[Len(log)].type = "exec"
        /\ Cardinality(debounced.timers) <= 1

C20_Witness ==
  /\ Undisturbed
  /\ Len(debounced.log) = 3
  /\ debounced.log[1] = CallAt(0, "x")
  /\ debounced.log[2] = CallAt(1, "y")
  /\ debounced.log[3] = ExecAt(3, "y")
  /\ debounced.delay = 2

\* the executions of f so far
ExecsOf(d) == SelectSeq(d.log, LAMBDA e : e.type = "exec")

\* the arguments of the latest call
LastArgs(d) ==
  LET calls == SelectSeq(d.log, LAMBDA e : e.type = "call")
  IN  calls[Len(calls)].args

\* C21: after cancel() on a pending call no step executes f, until a new
\* call of the debounced function.
C21_CancelledNotExecuted ==
  [][debounced.fate = "cancel" =>
       ExecsOf(debounced') = ExecsOf(debounced)]_vars

\* C22: flush() on a pending call executes it during flush(), and the call
\* is executed once in all: after it no step executes f, until a new call
\* of the debounced function.
C22_FlushedExactlyOnce ==
  [][/\ (debounced.fate = "pending" /\ debounced'.fate = "flush") =>
          debounced'.log =
            Append(debounced.log, ExecAt(now, LastArgs(debounced)))
     /\ debounced.fate = "flush" =>
          ExecsOf(debounced') = ExecsOf(debounced)]_vars

----------------------------------------------------------------------------
(* Properties of the rate limiters under a signal, and of throttle *)

\* C23: for a debounced or throttled function made with a signal, once the
\* signal has aborted no step invokes f: not a timer, not a call of the
\* wrapper, not flush().
C23_NoExecAfterAbort ==
  [][/\ (debounced.signal /\ signal.aborted) =>
          ExecsOf(debounced') = ExecsOf(debounced)
     /\ (throttled.signal /\ signal.aborted) =>
          throttled'.execs = throttled.execs]_vars

\* a throttled function was called after its signal had aborted, once f had
\* been executed before the abort
C23_Witness ==
  /\ throttled.signal /\ signal.aborted
  /\ throttled.fate = "ignored"
  /\ Len(throttled.execs) = 1

\* a debounced function was called and flushed after the abort that had
\* ended its pending call
C23_DebounceWitness ==
  /\ debounced.signal /\ signal.aborted
  /\ debounced.fate = "ignored"
  /\ CallsOf(debounced) = 2
  /\ ExecsOf(debounced) = <<>>

\* C24: any two executions of f by a throttled function are at least
\* interval apart.
C24_OncePerInterval ==
  \A i \in 1..Len(throttled.execs) : \A j \in 1..Len(throttled.execs) :
    i < j => throttled.execs[j].at - throttled.execs[i].at
               >= throttled.interval

----------------------------------------------------------------------------
(* Properties of the fail-fast race and of the invocations of resolveAll *)

\* by key index: the producer fails
Fails(i) == ~InputAt(i).ok

FailingKeys == {i \in 1..Len(keys) : Fails(i)}

\* the failing producer that comes first in normalized key order
FirstFailingKey == CHOOSE i \in FailingKeys : \A j \in FailingKeys : i <= j

\* the reaction of Promise.all to promise j is still in the queue
Unobserved(j) ==
  \E n \in 1..Len(microtasks) : microtasks[n] = Job("react", j)

\* C25 as stated: in fail-fast mode, when two or more producers have
\* rejected, the reason reported is that of the rejected producer first in
\* key order.
C25_ReasonOfFirstKey ==
  (/\ api = "resolveAll" /\ ~options.settled
   /\ Cardinality(FailingKeys) >= 2
   /\ Quiet
   /\ result.state = "rejected") =>
     result.reason = Prim(InputAt(FirstFailingKey).val)

\* C25: in fail-fast mode the reason reported is that of the rejection
\* Promise.all observes first: the combined promise is rejected by the
\* first reaction to a rejected producer to run, every other producer
\* rejected by then having its reaction behind it in the queue (it settled
\* later, or settled at the call and comes later in key order); the reason
\* then never changes and is the one resolveAll rejects with.
C25_ReasonOfFirstObserved ==
  [][(api = "resolveAll" /\ ~options.settled) =>
       /\ (combined.state = "pending" /\ combined'.state = "rejected") =>
            /\ HeadIs("react")
            /\ LET i == Head(microtasks).i
               IN  /\ promises[i].state = "rejected"
                   /\ combined'.reason = promises[i].reason
                   /\ \A j \in 1..Len(promises) \ {i} :
                        promises[j].state = "rejected" => Unobserved(j)
       /\ combined.state = "rejected" => combined' = combined
       /\ result.state = "rejected" => result.reason = combined.reason]_vars

\* two producers rejected, and the reason reported is not that of the one
\* first in key order
C25_Witness ==
  /\ api = "resolveAll" /\ ~options.settled
  /\ Quiet
  /\ Cardinality(FailingKeys) >= 2
  /\ result.state = "rejected"
  /\ result.reason # Prim(InputAt(FirstFailingKey).val)

Prompt == \A i \in 1..Len(keys) : ~InputAt(i).late

\* by key index, the outcome of the producer as a PromiseSettledResult
OutcomeAt(i) ==
  IF InputAt(i).ok THEN Fulfilled(Prim(InputAt(i).val))
  ELSE Rejected(Prim(InputAt(i).val))

\* the first of the failing producers in the order given by rank, then by
\* key
FirstBy(rank) ==
  CHOOSE i \in FailingKeys :
    \A j \in FailingKeys :
      rank[i] < rank[j] \/ (rank[i] = rank[j] /\ i <= j)

\* what the aggregator settles with when the failing producer k is the one
\* whose rejection counts in fail-fast mode
OutcomeWith(k) ==
  LET outcomes == [i \in 1..Len(keys) |-> OutcomeAt(i)]
      reason == Prim(InputAt(k).val)
  IN  IF api = "resolveAll"
        THEN (IF options.settled THEN resolveAllSettled(outcomes)
              ELSE resolveAllCatch(reason))
        ELSE (IF options.settled THEN checkAllSettled(outcomes)
              ELSE checkAllCatch(reason))

\* the rejection of a promise passed in is observed before the failure of
\* any callable; were a returned rejected promise the same as a throw, the
\* callables would be observed in key order
RankIfThrown ==
  [i \in 1..Len(keys) |-> IF InputAt(i).kind = "promise" THEN 0 ELSE 1]

\* a throw is observed before the rejection of a returned promise
RankObserved ==
  [i \in 1..Len(keys) |->
     CASE InputAt(i).kind = "promise" -> 0
       [] InputAt(i).kind = "fn" -> 1
       [] OTHER -> 2]

\* C27 as stated: a callable returning a promise rejected with a reason
\* yields the aggregate outcome (rejection reason, settled outcome, nothrow
\* result) that a callable throwing that reason yields in its place.
C27_RejectionSameAsThrow ==
  (api \in {"resolveAll", "checkAll"} /\ Quiet /\ Prompt /\ FailingKeys # {})
    => result = OutcomeWith(FirstBy(RankIfThrown))

\* C27: a producer never makes the call throw (the callables are run by
\* microtasks: none is invoked when the call returns its pending promise),
\* and a throw and a returned rejected promise both end as a rejected
\* outcome: the same settled outcomes and the same nothrow result, and the
\* same reason in fail-fast mode when no other producer fails; when several
\* fail, the throws are observed before the rejections of returned
\* promises, whatever their keys.
C27_RejectionObservedAfterThrows ==
  /\ (api \in {"resolveAll", "checkAll"} /\ Quiet /\ Prompt
        /\ FailingKeys # {})
       => result = OutcomeWith(FirstBy(RankObserved))
  /\ (api \in {"resolveAll", "checkAll"} /\ invoked = <<>>)
       => /\ result.state = "pending" \/ Len(keys) = 0
             \/ \A i \in 1..Len(keys) : InputAt(i).kind = "promise"
          /\ \A i \in 1..Len(keys) :
               InputAt(i).kind # "promise" =>
                 \E n \in 1..Len(microtasks) : microtasks[n] = Job("invoke", i)

\* a callable returning a rejected promise comes before a throwing one in
\* key order, and the reason reported in fail-fast mode is the thrown one
C27_Witness ==
  /\ api \in {"resolveAll", "checkAll"} /\ Quiet /\ Prompt
  /\ ~options.settled /\ ~options.nothrow
  /\ \E i, j \in FailingKeys :
       /\ i < j
       /\ InputAt(i).kind = "async" /\ InputAt(j).kind = "fn"
       /\ InputAt(i).val # InputAt(j).val
       /\ result = RejectedWith(Prim(InputAt(j).val))

\* the key indices of the callables, in normalized key order
Callables ==
  SelectSeq([i \in 1..Len(keys) |-> i],
            LAMBDA i : InputAt(i).kind # "promise")

\* C28: in a resolveAll call, under every policy, the callables are invoked
\* once each in normalized key order, whatever the other producers do: the
\* invocations so far are the first callables in key order, the others are
\* queued next in that order, all are invoked when everything has settled,
\* and a promise passed in is never invoked.
C28_InvokedOnceInKeyOrder ==
  api = "resolveAll" =>
    /\ Len(invoked) <= Len(Callables)
    /\ invoked = SubSeq(Callables, 1, Len(invoked))
    /\ \A n \in (Len(invoked) + 1)..Len(Callables) :
         /\ n - Len(invoked) <= Len(microtasks)
         /\ microtasks[n - Len(invoked)] = Job("invoke", Callables[n])
    /\ Quiet => invoked = Callables

\* two callables of a record whose keys are not in insertion order were
\* invoked, the first of which failed, the result being settled
C28_Witness ==
  /\ api = "resolveAll"
  /\ Quiet
  /\ inputs.shape = "record" /\ keys # inputs.names
  /\ Len(invoked) = 2
  /\ ~InputAt(invoked[1]).ok
  /\ result.state # "pending"

----------------------------------------------------------------------------
(* Properties of the schedulers: the immediate invocation, the resources *)

\* C29: the call that creates a scheduler with immediate set (its signal,
\* if any, not aborted) invokes the callback once, and does so before the
\* repeating trigger is armed.
C29_ImmediateBeforeArming ==
  [][(poll.handle = "none" /\ poll'.handle = "live"
        /\ poll'.options.immediate) =>
       (poll'.calls = 1 /\ poll'.first = "unarmed")]_vars

\* the same of setSuperInterval
C29_SuperImmediateBeforeArming ==
  [][(/\ superInterval.handle = "none" /\ superInterval'.handle = "live"
      /\ superInterval'.options.immediate
      /\ ~(superInterval'.options.signal /\ signal.aborted)) =>
       (superInterval'.calls = 1 /\ superInterval'.first = "unarmed")]_vars

\* what the code does keep of it: one invocation during the call, made
\* when the repeating trigger is already armed
C29_ImmediateOnceArmed ==
  [][/\ (poll.handle = "none" /\ poll'.handle = "live"
           /\ poll'.options.immediate) =>
          (poll'.calls = 1 /\ poll'.first = "armed")
     /\ (/\ superInterval.handle = "none" /\ superInterval'.handle = "live"
         /\ superInterval'.options.immediate
         /\ ~(superInterval'.options.signal /\ signal.aborted)) =>
          (superInterval'.calls = 1 /\ superInterval'.first = "armed")]_vars

\* C30: once a setPolling handle is Stopped, nothing it registered is left:
\* neither its interval timer nor its timeout timer is pending and its
\* abort listener is not registered on the signal.
C30_ReleasedWhenStopped ==
  Stopped =>
    /\ ~poll.intervalId
    /\ ~poll.timeoutId
    /\ signal.listeners = 0

\* what stop() does release: the interval timer, for good
C30_IntervalReleased ==
  Stopped => ~poll.intervalId

----------------------------------------------------------------------------
(* Properties of the checks of waitCond and waitValue *)

\* C31: within a waitCond or waitValue call at most one check is in flight:
\* the checks started are the checks finished, plus the one in flight while
\* the guard is set; a tick of the interval that fires while the guard is
\* set starts no check and invokes no producer; and the step that finishes
\* a check clears the guard, whether the check succeeded or not.
C31_OneCheckInFlight ==
  [][Waiting =>
       /\ checking = cycle.active
       /\ hist.cycles = hist.done + (IF checking THEN 1 ELSE 0)
       /\ (checking /\ poll'.calls = poll.calls + 1) =>
            (checking' /\ hist' = hist /\ cycle' = cycle)
       /\ hist'.done = hist.done + 1 => ~checking']_vars

\* a tick fired while the first check was in flight, and a later tick
\* started a second check after the first had failed
C31_Witness ==
  /\ Waiting
  /\ checking
  /\ hist.first = "unready"
  /\ hist.cycles = 2
  /\ poll.calls = 2

\* what the getter of the j-th key yielded in the check that is finishing:
\* "none" if that check did not invoke it
YieldedAt(j) == hist.yielded[PositionOf(inputs, keys[j])]

\* a check of waitValue finishes in this step
ValueCheckEnds == api = "waitValue" /\ hist'.done = hist.done + 1

C33_SettledByFirstEvent ==
  [][(Waiting /\ ~hist.born) =>
       /\ (result.state = "pending") <=> (cause = "none")
       /\ result.state # "pending" => result' = result
       /\ cause # "none" => (cause' = cause /\ poll'.aborts = poll.aborts)
       /\ cause = "stop" =>
            (poll.aborts = <<>> /\ result.state = "fulfilled")
       /\ cause \in {"timeout", "signal"} =>
            (poll.aborts = <<cause>> /\ result = Cancelled(cause))]_vars

\* after a successful check the timeout expired and the signal was aborted
C33_Witness ==
  /\ Waiting
  /\ cause = "stop"
  /\ options.timeout = "50" /\ ~poll.timeoutId
  /\ options.signal /\ signal.aborted
  /\ result.state = "fulfilled"

\* a check in flight when the timeout expired completed later with every
\* producer ready, and the wait stays rejected
C33_LateSuccessWitness ==
  /\ Waiting
  /\ cause = "timeout"
  /\ hist.first = "ready" /\ ~checking
  /\ result = RejectedWith(Prim("timeout"))

\* C34: once the promise of a wait has settled its handle is Stopped with
\* the interval timer cleared (a wait called with an aborted signal made no
\* handle), and no step after that starts a check.
C34_NoCheckAfterSettled ==
  [][(Waiting /\ result.state # "pending") =>
       /\ ~hist.born => (Stopped /\ ~poll.intervalId)
       /\ hist.born => poll.handle = "none"
       /\ hist'.cycles = hist.cycles]_vars

\* settled by the timeout after a second check, the check in flight has
\* finished, and the interval could have fired again
C34_Witness ==
  /\ Waiting
  /\ cause = "timeout"
  /\ result.state # "pending"
  /\ hist.cycles = 2 /\ hist.done = 2
  /\ poll.calls < MaxCalls

\* C35: a wait called with a positive timeout and a signal that is not
\* aborted eventually settles, whatever its producers do.
C35_TimeoutSettles ==
  (Waiting /\ ToBoolean(options.timeout) /\ options.signal
     /\ ~signal.aborted)
    ~> (result.state # "pending")

\* the timeout settled a wait whose check is still awaiting a promise that
\* has not settled: the guard is still set
C35_Witness ==
  /\ Waiting
  /\ cause = "timeout"
  /\ checking
  /\ \E j \in 1..Len(cycle.slots) : cycle.slots[j].st = "pending"
  /\ ~signal.aborted
  /\ result.state # "pending"

\* a check resolves waitValue in this step
ValueResolves ==
  /\ api = "waitValue"
  /\ result.state = "pending"
  /\ result'.state = "fulfilled"
  /\ cause' = "stop"

\* C36: the result waitValue resolves with is made of values of one check
\* only, the check that resolves it: in that check every getter was invoked
\* and has yielded, and each place of the result holds the value its getter
\* yielded in that check.
C36_ValuesOfOneCheck ==
  [][ValueResolves =>
       /\ cycle.active /\ cycle.pos = Len(keys)
       /\ \A j \in 1..Len(keys) :
            /\ cycle.slots[j].st = "settled" /\ cycle.slots[j].ok
            /\ YieldedAt(j) = cycle.slots[j].val
       /\ \A i \in 1..Len(hist.yielded) : hist.yielded[i] # "none"
       /\ result'.value =
            Shaped([i \in 1..Len(hist.yielded) |-> Prim(hist.yielded[i])])]_vars

\* resolved by the third check with the values yielded in it, after a
\* check that the first getter failed and a check in which the first getter
\* yielded a value and the second getter failed
C36_Witness ==
  /\ api = "waitValue"
  /\ inputs.shape = "array" /\ Len(inputs.items) = 2
  /\ hist.cycles = 3
  /\ hist.invoked = <<3, 2>>
  /\ hist.unready = <<1, 1>>
  /\ cause = "stop"
  /\ result = FulfilledWith(List(<<Prim("0"), Prim("v1")>>))

\* C37: in a check of waitValue the getters run one after another in key
\* order: the getters invoked are those of the keys up to the current one,
\* every getter before the current one has completed with a value that is
\* neither null nor undefined, and no getter but the current one can be
\* pending; with no check in flight no getter is pending.
C37_OneGetterInFlight ==
  (api = "waitValue" /\ ~hist.born) =>
    IF cycle.active
      THEN /\ cycle.pos \in 0..Len(keys)
           /\ \A j \in 1..Len(keys) :
                /\ j < cycle.pos =>
                     /\ cycle.slots[j].st = "settled"
                     /\ cycle.slots[j].ok
                     /\ cycle.slots[j].val \notin {"null", "undefined"}
                /\ j > cycle.pos => cycle.slots[j].st = "idle"
                /\ j = cycle.pos => cycle.slots[j].st # "idle"
                /\ (YieldedAt(j) # "none") <=> (j <= cycle.pos)
      ELSE cycle.slots = <<>>

\* the getter of the key "0", second in the input and first in key order,
\* has yielded false, and the getter of "a" is in flight after it
C37_Witness ==
  /\ api = "waitValue"
  /\ inputs.shape = "record" /\ inputs.names = <<"a", "0">>
  /\ cycle.active /\ cycle.pos = 2
  /\ cycle.slots[1].val = "false"
  /\ cycle.slots[2].st = "pending"
  /\ hist.cycles = 2

----------------------------------------------------------------------------
(* Properties of a timeout of 0 *)

\* C38: a timeout of 0 is no timeout.  A handle that setPolling made with
\* timeout 0 has no timeout timer, onabort is never called with "timeout"
\* and the handle is never stopped by a timeout.
C38_ZeroIsNoTimeout ==
  (poll.handle # "none" /\ poll.options.timeout = "0") =>
    /\ ~poll.timeoutId
    /\ cause # "timeout"
    /\ \A n \in 1..Len(poll.aborts) : poll.aborts[n] # "timeout"

\* the handle made with timeout 0 has run its callback as often as the
\* model lets it and is still polling
C38_Witness ==
  /\ poll.handle = "live"
  /\ poll.options.timeout = "0"
  /\ poll.calls = MaxCalls
  /\ ~poll.stopped
  /\ poll.intervalId

\* C38 for setSuperInterval: with timeout 0 it sets no timeout timer
C38_SuperZeroIsNoTimeout ==
  (superInterval.handle # "none" /\ superInterval.options.timeout = "0") =>
    ~superInterval.timeoutId

\* C38 for waitCond and waitValue: with timeout 0 the wait has no timeout
\* timer and is never cancelled by "timeout"
C38_WaitZeroIsNoTimeout ==
  (Waiting /\ options.timeout = "0") =>
    /\ ~poll.timeoutId
    /\ cause # "timeout"
    /\ result # RejectedWith(Prim("timeout"))
    /\ \A n \in 1..Len(poll.aborts) : poll.aborts[n] # "timeout"

\* a wait with timeout 0 whose producer was not ready in any check the model
\* lets it run is still pending
C38_WaitWitness ==
  /\ Waiting
  /\ options.timeout = "0"
  /\ poll.calls = MaxCalls
  /\ hist.done = MaxCalls + 1
  /\ result.state = "pending"

----------------------------------------------------------------------------
(* Properties of flush() with no call pending *)

\* C39: flush() invokes f only if a call is pending.  While no timer of a
\* call is set (no call was made, or the latest call was executed by its
\* timer or by flush(), or cancelled), no step, flush() included, executes f.
C39_FlushOnlyPending ==
  [][(debounced.made /\ debounced.timers = {}) =>
       ExecsOf(debounced') = ExecsOf(debounced)]_vars

\* the part of C39 that holds: before the first call of the debounced
\* function flush() executes nothing
C39_FlushBeforeAnyCall ==
  [][(debounced.made /\ CallsOf(debounced) = 0) =>
       ExecsOf(debounced') = <<>>]_vars

\* flush() was called before any call of the debounced function
C39_FlushBeforeAnyCallWitness ==
  /\ debounced.made
  /\ debounced.disturbed
  /\ debounced.log = <<>>
  /\ debounced.pending = "noop"

====
